---- MODULE Spec2Model ----
(***************************************************************************)
(* korppi: the patch store, the review ledger, the cross-document import,  *)
(* the conflict detector, the conflict store and the table of open         *)
(* documents, as state machines.                                           *)
(*                                                                         *)
(* One history database (history.sqlite) is modelled by its tables:        *)
(* patches, snapshots, patch_reviews and comments.  Every handler of       *)
(* patch_log.rs and document_manager.rs opens a connection, runs           *)
(* ensure_schema and then its statements; each action below is one         *)
(* handler, ensure_schema included.  The handlers of patch_log.rs work on  *)
(* the application database and those of document_manager.rs on a          *)
(* document's own database; both have the schema of db_utils.rs, and the   *)
(* model lets both families act on the one modelled database.              *)
(***************************************************************************)
EXTENDS Integers, Sequences, FiniteSets, TLC

VARIABLES
    patches,        \* table patches, in id order
    snapshots,      \* table snapshots, in id order
    patch_reviews,  \* table patch_reviews, a set of rows
    comments,       \* table comments, in id order
    source,         \* the history.sqlite of the KMD file imports read from
    uuid_gen,       \* how many Uuid::new_v4() values have been drawn
    now,            \* the wall clock, SystemTime::now() in ms
    last,           \* the last handler call: its name, argument and result
    written         \* history: per (patch_uuid, reviewer_id), the decision of the
                    \* latest review write that returned Ok

store_vars ==
    <<patches, snapshots, patch_reviews, comments, source, uuid_gen, now, last, written>>

VARIABLES
    detector_input,   \* the patch list handed to ConflictDetector::detect_conflicts
    detector_output   \* what the call returned, with the time groups it formed

detector_vars == <<detector_input, detector_output>>

VARIABLES
    conflicts_v2,     \* table conflicts_v2, in rowid order
    calls             \* the last two calls on the conflict store, oldest first

conflict_vars == <<conflicts_v2, calls>>

VARIABLES
    foreign_keys      \* whether the SQLite the program is built with enforces
                      \* FOREIGN KEY clauses; no connection sets the pragma

build_vars == <<foreign_keys>>

VARIABLES
    documents,            \* DocumentManager.documents: open documents by id
    active_document_id,   \* DocumentManager.active_document_id
    doc_gen,              \* how many document ids have been drawn
    disk,                 \* the KMD files: per path, the yjs state bundled in it
    save_task             \* the save_document call under way, if any, and its locals

manager_vars == <<documents, active_document_id, doc_gen, disk, save_task>>

(***************************************************************************)
(* Bounds of the model.                                                    *)
(***************************************************************************)
MaxPatches == 3      \* rows the patches table may grow to
MaxSrcPatches == 2   \* rows of the source history's patches table
MaxComments == 2       \* comments add_comment writes into one history
MaxClock == 1        \* the clock stops advancing here
MaxDocs == 2         \* documents created, opened or imported in one run

(***************************************************************************)
(* Values.                                                                 *)
(***************************************************************************)
NULL == <<>>                      \* SQL NULL, Rust None
Some(x) == <<x>>                  \* a present optional string of a JSON value
Authors == {"alice", "bob"}       \* author and reviewer identities
GivenUuids == {<<"given", 1>>, <<"given", 2>>}   \* uuids callers supply
NewV4(n) == <<"v4", n>>           \* the n-th Uuid::new_v4(): never repeats

\* serde_json::Value of a patch payload: an object (a Save checkpoint, with
\* or without a "snapshot" string) or an array of edit operations.
ObjectData(snapshot) == [array |-> FALSE, snapshot |-> snapshot, ops |-> <<>>]
ArrayData(ops) == [array |-> TRUE, snapshot |-> NULL, ops |-> ops]

PatchInput(timestamp, author, kind, data, uuid, parent_uuid) ==
    [timestamp |-> timestamp, author |-> author, kind |-> kind, data |-> data,
     uuid |-> uuid, parent_uuid |-> parent_uuid]

Patch(id, p) ==
    [id |-> id, timestamp |-> p.timestamp, author |-> p.author, kind |-> p.kind,
     data |-> p.data, uuid |-> p.uuid, parent_uuid |-> p.parent_uuid]

Snapshot(id, timestamp, patch_id, state) ==
    [id |-> id, timestamp |-> timestamp, patch_id |-> patch_id, state |-> state]

PatchReview(patch_uuid, reviewer_id, decision, reviewer_name, reviewed_at) ==
    [patch_uuid |-> patch_uuid, reviewer_id |-> reviewer_id, decision |-> decision,
     reviewer_name |-> reviewer_name, reviewed_at |-> reviewed_at]

\* The columns author_color, start_anchor, end_anchor and selected_text are
\* copied verbatim wherever a comment is copied and are not modelled.
Comment(id, timestamp, author, content, status, parent_id) ==
    [id |-> id, timestamp |-> timestamp, author |-> author, content |-> content,
     status |-> status, parent_id |-> parent_id]

Call(op, arg, ok, result) == [op |-> op, arg |-> arg, ok |-> ok, result |-> result]

(***************************************************************************)
(* Helpers on tables.                                                      *)
(***************************************************************************)
\* INTEGER PRIMARY KEY AUTOINCREMENT; no handler modelled here deletes rows.
NextId(table) == IF table = <<>> THEN 1 ELSE table[Len(table)].id + 1

\* ORDER BY timestamp ASC; rows with equal timestamps stay in id order.
InsertByTimestamp(sorted, row) ==
    LET k == Cardinality({i \in 1..Len(sorted) : sorted[i].timestamp <= row.timestamp})
    IN  SubSeq(sorted, 1, k) \o <<row>> \o SubSeq(sorted, k + 1, Len(sorted))

RECURSIVE OrderByTimestamp(_)
OrderByTimestamp(rows) ==
    IF rows = <<>> THEN <<>>
    ELSE InsertByTimestamp(OrderByTimestamp(SubSeq(rows, 1, Len(rows) - 1)), rows[Len(rows)])

(***************************************************************************)
(* db_utils.rs                                                             *)
(***************************************************************************)
\* Step 3 of ensure_schema: every row whose uuid IS NULL gets a fresh uuid.
\* Steps 1 and 2 create the tables and indices, whose constraints are the
\* guards of the INSERT operators below.
ensure_schema(table, gen) ==
    LET nulls_before(i) == Cardinality({j \in 1..(i - 1) : table[j].uuid = NULL})
    IN  [patches |-> [i \in 1..Len(table) |->
                        IF table[i].uuid = NULL
                        THEN [table[i] EXCEPT !.uuid = NewV4(gen + nulls_before(i))]
                        ELSE table[i]],
         gen |-> gen + nulls_before(Len(table) + 1)]

\* CREATE UNIQUE INDEX idx_patches_uuid ON patches(uuid): NULLs never clash.
UuidExists(table, uuid) == \E i \in 1..Len(table) : table[i].uuid = uuid

\* insert_patch on a table that lacks the unique index on uuid.
insert_patch_without_unique_index(table, p) ==
    [ok |-> TRUE, patches |-> Append(table, Patch(NextId(table), p)), id |-> NextId(table)]

\* INSERT INTO patches (timestamp, author, kind, data, uuid, parent_uuid).
insert_patch(table, p) ==
    IF p.uuid # NULL /\ UuidExists(table, p.uuid)
    THEN [ok |-> FALSE, patches |-> table, id |-> 0]
    ELSE [ok |-> TRUE, patches |-> Append(table, Patch(NextId(table), p)),
          id |-> NextId(table)]

\* INSERT INTO snapshots (timestamp, patch_id, state) with the id of a patch
\* row the same handler has just inserted.
insert_snapshot(table, timestamp, patch_id, state) ==
    Append(table, Snapshot(NextId(table), timestamp, patch_id, state))

\* decision TEXT NOT NULL CHECK (decision IN ('accepted', 'rejected'))
decision_check(decision) == decision \in {"accepted", "rejected"}

\* INSERT OR IGNORE in place of INSERT OR REPLACE: a stored row is kept.
insert_or_ignore_review(table, r) ==
    IF ~decision_check(r.decision)
    THEN [ok |-> FALSE, patch_reviews |-> table]
    ELSE [ok |-> TRUE,
          patch_reviews |->
              IF \E x \in table : x.patch_uuid = r.patch_uuid /\ x.reviewer_id = r.reviewer_id
              THEN table ELSE table \cup {r}]

\* INSERT OR REPLACE INTO patch_reviews: the row holding the primary key
\* (patch_uuid, reviewer_id) is deleted before the new row is inserted; a
\* row failing the CHECK constraint is refused.
insert_or_replace_review(table, r) ==
    IF ~decision_check(r.decision)
    THEN [ok |-> FALSE, patch_reviews |-> table]
    ELSE [ok |-> TRUE,
          patch_reviews |->
              {x \in table : ~(x.patch_uuid = r.patch_uuid /\ x.reviewer_id = r.reviewer_id)}
              \cup {r}]

(***************************************************************************)
(* patch_log.rs and document_manager.rs: appending patches.                *)
(***************************************************************************)
\* The parent taken from the command's argument alone.
parent_argument_only(patch, parent_uuid) == parent_uuid

\* patch.parent_uuid.or(parent_uuid)
actual_parent(patch, parent_uuid) ==
    IF patch.parent_uuid # NULL THEN patch.parent_uuid ELSE parent_uuid

\* What record_patch was called with: the patch and the parent argument.
AppendArg(patch, parent_uuid) == patch @@ [parent_argument |-> parent_uuid]

\* record_patch(app, patch, parent_uuid) -> Result<String, String>
record_patch(patch, parent_uuid) ==
    LET db == ensure_schema(patches, uuid_gen)
        generate == patch.uuid = NULL
        patch_uuid == IF generate THEN NewV4(db.gen) ELSE patch.uuid
        ins == insert_patch(db.patches,
                            [patch EXCEPT !.uuid = patch_uuid,
                                          !.parent_uuid = actual_parent(patch, parent_uuid)])
    IN  /\ Len(patches) < MaxPatches
        /\ patches' = ins.patches
        /\ uuid_gen' = IF generate THEN db.gen + 1 ELSE db.gen
        /\ last' = Call("record_patch", AppendArg(patch, parent_uuid), ins.ok,
                        IF ins.ok THEN patch_uuid ELSE NULL)
        /\ UNCHANGED <<snapshots, patch_reviews, comments, source, now, written>>
        /\ UNCHANGED <<detector_vars, conflict_vars, build_vars, manager_vars>>

\* record_document_patch(manager, id, patch) -> Result<(), String>
\* A Save patch whose payload has a "snapshot" string also gets a snapshots
\* row holding that text, tied to the new patch's id.
record_document_patch(patch) ==
    LET db == ensure_schema(patches, uuid_gen)
        generate == patch.uuid = NULL
        patch_uuid == IF generate THEN NewV4(db.gen) ELSE patch.uuid
        ins == insert_patch(db.patches, [patch EXCEPT !.uuid = patch_uuid])
        with_snapshot == ins.ok /\ patch.kind = "Save" /\ patch.data.snapshot # NULL
    IN  /\ Len(patches) < MaxPatches
        /\ patches' = ins.patches
        /\ snapshots' = IF with_snapshot
                        THEN insert_snapshot(snapshots, patch.timestamp, ins.id,
                                             patch.data.snapshot[1])
                        ELSE snapshots
        /\ uuid_gen' = IF generate THEN db.gen + 1 ELSE db.gen
        /\ last' = Call("record_document_patch", patch, ins.ok, NULL)
        /\ UNCHANGED <<patch_reviews, comments, source, now, written>>
        /\ UNCHANGED <<detector_vars, conflict_vars, build_vars, manager_vars>>

(***************************************************************************)
(* patch_log.rs and document_manager.rs: the review ledger.                *)
(***************************************************************************)
\* if decision != "accepted" && decision != "rejected" { return Err(..) }
valid_decision(decision) == decision = "accepted" \/ decision = "rejected"

\* A handler that takes every decision other than "accepted" as "rejected".
write_review_defaulting(table, patch_uuid, reviewer_id, decision, reviewer_name, reviewed_at) ==
    insert_or_replace_review(
        table, PatchReview(patch_uuid, reviewer_id,
                           IF decision = "accepted" THEN "accepted" ELSE "rejected",
                           reviewer_name, reviewed_at))

\* The body shared by record_patch_review and record_document_patch_review:
\* validate the decision, then INSERT OR REPLACE the row stamped with now.
write_review(table, patch_uuid, reviewer_id, decision, reviewer_name, reviewed_at) ==
    IF ~valid_decision(decision)
    THEN [ok |-> FALSE, patch_reviews |-> table]
    ELSE insert_or_replace_review(
             table, PatchReview(patch_uuid, reviewer_id, decision, reviewer_name, reviewed_at))

ReviewArg(patch_uuid, reviewer_id, decision, reviewer_name) ==
    [patch_uuid |-> patch_uuid, reviewer_id |-> reviewer_id, decision |-> decision,
     reviewer_name |-> reviewer_name]

\* record_patch_review(app, patch_uuid, reviewer_id, decision, reviewer_name)
record_patch_review(patch_uuid, reviewer_id, decision, reviewer_name) ==
    LET db == ensure_schema(patches, uuid_gen)
        w == write_review(patch_reviews, patch_uuid, reviewer_id, decision, reviewer_name, now)
    IN  /\ patches' = db.patches
        /\ uuid_gen' = db.gen
        /\ patch_reviews' = w.patch_reviews
        /\ written' = IF w.ok THEN (<<patch_uuid, reviewer_id>> :> decision) @@ written
                      ELSE written
        /\ last' = Call("record_patch_review",
                        ReviewArg(patch_uuid, reviewer_id, decision, reviewer_name), w.ok, NULL)
        /\ UNCHANGED <<snapshots, comments, source, now>>
        /\ UNCHANGED <<detector_vars, conflict_vars, build_vars, manager_vars>>

\* record_document_patch_review(manager, doc_id, patch_uuid, reviewer_id,
\*                              decision, reviewer_name)
record_document_patch_review(patch_uuid, reviewer_id, decision, reviewer_name) ==
    LET db == ensure_schema(patches, uuid_gen)
        w == write_review(patch_reviews, patch_uuid, reviewer_id, decision, reviewer_name, now)
    IN  /\ patches' = db.patches
        /\ uuid_gen' = db.gen
        /\ patch_reviews' = w.patch_reviews
        /\ written' = IF w.ok THEN (<<patch_uuid, reviewer_id>> :> decision) @@ written
                      ELSE written
        /\ last' = Call("record_document_patch_review",
                        ReviewArg(patch_uuid, reviewer_id, decision, reviewer_name), w.ok, NULL)
        /\ UNCHANGED <<snapshots, comments, source, now>>
        /\ UNCHANGED <<detector_vars, conflict_vars, build_vars, manager_vars>>

\* The query of get_patches_needing_review and of
\* get_document_patches_needing_review:
\*   WHERE p.author != ?1 AND p.uuid IS NOT NULL
\*     AND NOT EXISTS (SELECT 1 FROM patch_reviews pr
\*                     WHERE pr.patch_uuid = p.uuid AND pr.reviewer_id = ?1)
\*   ORDER BY p.timestamp ASC
needs_review_where_any_author(p, reviews, reviewer_id) ==
    /\ p.uuid # NULL
    /\ ~\E pr \in reviews : pr.patch_uuid = p.uuid /\ pr.reviewer_id = reviewer_id

\* The query with a NOT EXISTS that looks for an accepting review only.
needs_review_where_not_accepted(p, reviews, reviewer_id) ==
    /\ p.author # reviewer_id
    /\ p.uuid # NULL
    /\ ~\E pr \in reviews : /\ pr.patch_uuid = p.uuid /\ pr.reviewer_id = reviewer_id
                            /\ pr.decision = "accepted"

needs_review_where(p, reviews, reviewer_id) ==
    /\ p.author # reviewer_id
    /\ p.uuid # NULL
    /\ ~\E pr \in reviews : pr.patch_uuid = p.uuid /\ pr.reviewer_id = reviewer_id

\* The query without its ORDER BY: rows come in id order.
patches_needing_review_unordered(table, reviews, reviewer_id) ==
    LET where(p) == needs_review_where(p, reviews, reviewer_id)
    IN  SelectSeq(table, where)

patches_needing_review(table, reviews, reviewer_id) ==
    LET where(p) == needs_review_where(p, reviews, reviewer_id)
    IN  OrderByTimestamp(SelectSeq(table, where))

\* get_patches_needing_review(app, reviewer_id) -> Result<Vec<Patch>, String>
get_patches_needing_review(reviewer_id) ==
    LET db == ensure_schema(patches, uuid_gen)
    IN  /\ patches' = db.patches
        /\ uuid_gen' = db.gen
        /\ last' = Call("get_patches_needing_review", reviewer_id, TRUE,
                        patches_needing_review(db.patches, patch_reviews, reviewer_id))
        /\ UNCHANGED <<snapshots, patch_reviews, comments, source, now, written>>
        /\ UNCHANGED <<detector_vars, conflict_vars, build_vars, manager_vars>>

\* A lookup that answers with the parent only if a patch of that uuid is stored.
select_parent_uuid_if_stored(table, patch_uuid) ==
    LET rows == {i \in 1..Len(table) : table[i].uuid = patch_uuid}
        parent_uuid == IF rows = {} THEN NULL ELSE table[CHOOSE i \in rows : TRUE].parent_uuid
    IN  IF parent_uuid # NULL /\ \E i \in 1..Len(table) : table[i].uuid = parent_uuid
        THEN parent_uuid ELSE NULL

\* SELECT parent_uuid FROM patches WHERE uuid = ?1, .optional(), .flatten():
\* None when no row has the uuid and when the row's parent_uuid is NULL.
select_parent_uuid(table, patch_uuid) ==
    IF UuidExists(table, patch_uuid)
    THEN table[CHOOSE i \in 1..Len(table) : table[i].uuid = patch_uuid].parent_uuid
    ELSE NULL

\* The review rows of the parent, whoever the reviewer is.
select_review_any_reviewer(reviews, parent_uuid, reviewer_id) ==
    {pr \in reviews : pr.patch_uuid = parent_uuid}

\* SELECT decision, reviewer_name FROM patch_reviews
\* WHERE patch_uuid = ?1 AND reviewer_id = ?2: the primary key, at most one row
select_review(reviews, parent_uuid, reviewer_id) ==
    {pr \in reviews : pr.patch_uuid = parent_uuid /\ pr.reviewer_id = reviewer_id}

ParentPatchStatus(has_parent, parent_uuid, parent_rejected, rejected_by_name) ==
    [has_parent |-> has_parent, parent_uuid |-> parent_uuid,
     parent_rejected |-> parent_rejected, rejected_by_name |-> rejected_by_name]

\* The body of check_parent_patch_status after ensure_schema.
parent_patch_status(table, reviews, patch_uuid, reviewer_id) ==
    LET parent_uuid == select_parent_uuid(table, patch_uuid)
        rejection == {pr \in select_review(reviews, parent_uuid, reviewer_id) :
                          pr.decision = "rejected"}
    IN  IF parent_uuid = NULL THEN ParentPatchStatus(FALSE, NULL, FALSE, NULL)
        ELSE IF rejection # {}
        THEN ParentPatchStatus(TRUE, parent_uuid, TRUE,
                               (CHOOSE pr \in rejection : TRUE).reviewer_name)
        ELSE ParentPatchStatus(TRUE, parent_uuid, FALSE, NULL)

\* check_parent_patch_status(manager, doc_id, patch_uuid, reviewer_id)
check_parent_patch_status(patch_uuid, reviewer_id) ==
    LET db == ensure_schema(patches, uuid_gen)
    IN  /\ patches' = db.patches
        /\ uuid_gen' = db.gen
        /\ last' = Call("check_parent_patch_status",
                        [patch_uuid |-> patch_uuid, reviewer_id |-> reviewer_id], TRUE,
                        parent_patch_status(db.patches, patch_reviews, patch_uuid, reviewer_id))
        /\ UNCHANGED <<snapshots, patch_reviews, comments, source, now, written>>
        /\ UNCHANGED <<detector_vars, conflict_vars, build_vars, manager_vars>>

\* ORDER BY id ASC
InsertById(sorted, row) ==
    LET k == Cardinality({i \in 1..Len(sorted) : sorted[i].id <= row.id})
    IN  SubSeq(sorted, 1, k) \o <<row>> \o SubSeq(sorted, k + 1, Len(sorted))

RECURSIVE OrderById(_)
OrderById(rows) ==
    IF rows = <<>> THEN <<>>
    ELSE InsertById(OrderById(SubSeq(rows, 1, Len(rows) - 1)), rows[Len(rows)])

\* The listing in timestamp order, as the needs-review query has it.
select_patches_by_timestamp(table) == OrderByTimestamp(table)

\* SELECT id, timestamp, author, kind, data, uuid, parent_uuid FROM patches
\* ORDER BY id ASC
select_patches(table) == OrderById(table)

\* list_patches(app) and list_document_patches(manager, id)
list_patches ==
    LET db == ensure_schema(patches, uuid_gen)
    IN  /\ patches' = db.patches
        /\ uuid_gen' = db.gen
        /\ last' = Call("list_patches", NULL, TRUE, select_patches(db.patches))
        /\ UNCHANGED <<snapshots, patch_reviews, comments, source, now, written>>
        /\ UNCHANGED <<detector_vars, conflict_vars, build_vars, manager_vars>>

(***************************************************************************)
(* patch_log.rs and document_manager.rs: snapshots.                        *)
(***************************************************************************)
\* const MAX_SNAPSHOT_SIZE: usize = 100 * 1024 * 1024
MAX_SNAPSHOT_SIZE == 104857600

\* A payload (Vec<u8>) is named by a string; state.len() is its byte count.
state_len(state) ==
    IF state = "" THEN 0
    ELSE IF state = "oversized" THEN MAX_SNAPSHOT_SIZE + 1
    ELSE 1

\* A check for the empty payload alone.
valid_state_nonempty(state) == state_len(state) > 0

\* state.is_empty() or state.len() > MAX_SNAPSHOT_SIZE: Err before any write
valid_state(state) == state_len(state) > 0 /\ state_len(state) <= MAX_SNAPSHOT_SIZE

\* FOREIGN KEY (patch_id) REFERENCES patches(id), when the build enforces it
references_patch(table, patch_id) == \E i \in 1..Len(table) : table[i].id = patch_id

\* INSERT INTO snapshots (timestamp, patch_id, state) VALUES (?1, ?2, ?3)
write_snapshot(table, rows, timestamp, patch_id, state) ==
    IF foreign_keys /\ ~references_patch(table, patch_id)
    THEN [ok |-> FALSE, snapshots |-> rows]
    ELSE [ok |-> TRUE, snapshots |-> insert_snapshot(rows, timestamp, patch_id, state)]

SnapshotArg(patch_id, state) == [patch_id |-> patch_id, state |-> state]

\* save_snapshot(app, patch_id, state): validation, get_conn, INSERT
save_snapshot(patch_id, state) ==
    IF ~valid_state(state)
    THEN /\ last' = Call("save_snapshot", SnapshotArg(patch_id, state), FALSE, NULL)
         /\ UNCHANGED <<patches, snapshots, patch_reviews, comments, source, uuid_gen,
                        now, written>>
         /\ UNCHANGED <<detector_vars, conflict_vars, build_vars, manager_vars>>
    ELSE LET db == ensure_schema(patches, uuid_gen)
             w == write_snapshot(db.patches, snapshots, now, patch_id, state)
         IN  /\ patches' = db.patches
             /\ uuid_gen' = db.gen
             /\ snapshots' = w.snapshots
             /\ last' = Call("save_snapshot", SnapshotArg(patch_id, state), w.ok, NULL)
             /\ UNCHANGED <<patch_reviews, comments, source, now, written>>
             /\ UNCHANGED <<detector_vars, conflict_vars, build_vars, manager_vars>>

\* save_document_snapshot(manager, id, patch_id, state): as save_snapshot,
\* but the connection only creates the snapshots table, not the whole schema.
save_document_snapshot(patch_id, state) ==
    LET w == IF valid_state(state)
             THEN write_snapshot(patches, snapshots, now, patch_id, state)
             ELSE [ok |-> FALSE, snapshots |-> snapshots]
    IN  /\ snapshots' = w.snapshots
        /\ last' = Call("save_document_snapshot", SnapshotArg(patch_id, state), w.ok, NULL)
        /\ UNCHANGED <<patches, patch_reviews, comments, source, uuid_gen, now, written>>
        /\ UNCHANGED <<detector_vars, conflict_vars, build_vars, manager_vars>>

\* The newest row among those at or before the patch: ORDER BY id DESC.
nearest_snapshots_latest_row(rows, patch_id) ==
    {Some(rows[i]) : i \in {i \in 1..Len(rows) :
         /\ rows[i].patch_id <= patch_id
         /\ \A j \in 1..Len(rows) : rows[j].patch_id <= patch_id => j <= i}}

\* SELECT ... FROM snapshots WHERE patch_id <= ?1 ORDER BY patch_id DESC
\* LIMIT 1: the rows the statement may return.  Rows with the same patch_id
\* are in no order the statement fixes.
nearest_snapshots(rows, patch_id) ==
    {Some(rows[i]) : i \in {i \in 1..Len(rows) :
         /\ rows[i].patch_id <= patch_id
         /\ \A j \in 1..Len(rows) :
                rows[j].patch_id <= patch_id => rows[j].patch_id <= rows[i].patch_id}}

\* get_snapshot_for_patch(app, patch_id) -> Result<Option<Snapshot>, String>
get_snapshot_for_patch(patch_id) ==
    LET db == ensure_schema(patches, uuid_gen)
        found == nearest_snapshots(snapshots, patch_id)
    IN  /\ patches' = db.patches
        /\ uuid_gen' = db.gen
        /\ \E result \in (IF found = {} THEN {NULL} ELSE found) :
               last' = Call("get_snapshot_for_patch", patch_id, TRUE, result)
        /\ UNCHANGED <<snapshots, patch_reviews, comments, source, now, written>>
        /\ UNCHANGED <<detector_vars, conflict_vars, build_vars, manager_vars>>

\* SystemTime::now() moves on between calls.
(***************************************************************************)
(* comments.rs                                                             *)
(***************************************************************************)
\* FOREIGN KEY (parent_id) REFERENCES comments(id), when the build enforces
\* it; the row being inserted may name itself.
references_comment(table, new_id, parent_id) ==
    parent_id = NULL \/ parent_id[1] = new_id
        \/ \E i \in 1..Len(table) : table[i].id = parent_id[1]

\* add_comment(manager, doc_id, comment) -> Result<i64, String>: the
\* parent_id is the caller's and is stored as given.
add_comment(author, content, parent_id) ==
    LET id == NextId(comments)
        ok == ~foreign_keys \/ references_comment(comments, id, parent_id)
    IN  /\ Len(comments) < MaxComments
        /\ comments' = IF ok
                       THEN Append(comments,
                                   Comment(id, now, author, content, "unresolved", parent_id))
                       ELSE comments
        /\ last' = Call("add_comment", [content |-> content, parent_id |-> parent_id], ok,
                        IF ok THEN id ELSE NULL)
        /\ UNCHANGED <<patches, snapshots, patch_reviews, source, uuid_gen, now, written>>
        /\ UNCHANGED <<detector_vars, conflict_vars, build_vars, manager_vars>>

Tick ==
    /\ now < MaxClock
    /\ now' = now + 1
    /\ UNCHANGED <<patches, snapshots, patch_reviews, comments, source, uuid_gen, last, written>>
    /\ UNCHANGED <<detector_vars, conflict_vars, build_vars, manager_vars>>

(***************************************************************************)
(* patch_log.rs: import_patches_from_document.                             *)
(***************************************************************************)
\* The source read without the test on kind.
source_patches_of_any_kind(src) == OrderByTimestamp(src.patches)

\* The source's checkpoints in the order of their ids.
source_save_patches_by_id(src) ==
    LET is_save(p) == p.kind = "Save"
    IN  SelectSeq(src.patches, is_save)

\* SELECT ... FROM patches WHERE kind = 'Save' ORDER BY timestamp ASC
source_save_patches(src) ==
    LET is_save(p) == p.kind = "Save"
    IN  OrderByTimestamp(SelectSeq(src.patches, is_save))

\* snapshot_map: SELECT state FROM snapshots WHERE patch_id = ?1, first row.
source_snapshot(src, patch_id) ==
    LET rows == {i \in 1..Len(src.snapshots) : src.snapshots[i].patch_id = patch_id}
    IN  IF rows = {} THEN NULL
        ELSE Some(src.snapshots[CHOOSE i \in rows : \A j \in rows : i <= j].state)

\* The snapshot kept under the id the patch had in the source.
snapshot_patch_id_of_source(new_patch_id, source_patch_id) == source_patch_id

\* params![timestamp, new_patch_id, state]: target_conn.last_insert_rowid()
snapshot_patch_id(new_patch_id, source_patch_id) == new_patch_id

\* One turn of the loop over source_patches: compute or reuse the uuid, skip
\* the patch if the target has that uuid, else insert it under a new local
\* id and tie its snapshot to that id.
import_one_patch(st, src, sp) ==
    LET generate == sp.uuid = NULL
        patch_uuid == IF generate THEN NewV4(st.gen) ELSE sp.uuid
        gen == IF generate THEN st.gen + 1 ELSE st.gen
        exists == UuidExists(st.patches, patch_uuid)
        ins == insert_patch(st.patches,
                            PatchInput(sp.timestamp, sp.author, sp.kind, sp.data,
                                       patch_uuid, sp.parent_uuid))
        state == source_snapshot(src, sp.id)
    IN  IF exists
        THEN [st EXCEPT !.gen = gen]
        ELSE [patches |-> ins.patches,
              snapshots |-> IF state # NULL
                            THEN insert_snapshot(st.snapshots, sp.timestamp,
                                                 snapshot_patch_id(ins.id, sp.id), state[1])
                            ELSE st.snapshots,
              gen |-> gen,
              imported |-> Append(st.imported, ins.patches[Len(ins.patches)])]

RECURSIVE import_patch_loop(_, _, _)
import_patch_loop(st, src, source_patches) ==
    IF source_patches = <<>> THEN st
    ELSE import_patch_loop(import_one_patch(st, src, Head(source_patches)), src,
                           Tail(source_patches))

\* import_reviews: INSERT OR REPLACE every row of the source's patch_reviews.
RECURSIVE import_reviews(_, _)
import_reviews(source_reviews, table) ==
    IF source_reviews = {} THEN [ok |-> TRUE, patch_reviews |-> table]
    ELSE LET review == CHOOSE r \in source_reviews : TRUE
             w == insert_or_replace_review(table, review)
         IN  IF w.ok THEN import_reviews(source_reviews \ {review}, w.patch_reviews)
             ELSE [ok |-> FALSE, patch_reviews |-> table]

\* An import that looks for no comment in the target.
existing_comment_not_sought(table, c) == NULL

\* SELECT id FROM comments WHERE timestamp = ?1 AND author = ?2 AND content = ?3
existing_comment(table, c) ==
    LET rows == {i \in 1..Len(table) : /\ table[i].timestamp = c.timestamp
                                       /\ table[i].author = c.author
                                       /\ table[i].content = c.content}
    IN  IF rows = {} THEN NULL
        ELSE Some(table[CHOOSE i \in rows : \A j \in rows : i <= j].id)

\* One turn of the loop of import_comments; id_map maps source ids to target ids.
import_one_comment(st, c) ==
    LET existing_id == existing_comment(st.comments, c)
        new_parent_id == IF c.parent_id # NULL /\ c.parent_id[1] \in DOMAIN st.id_map
                         THEN Some(st.id_map[c.parent_id[1]])
                         ELSE NULL
        new_id == NextId(st.comments)
    IN  IF existing_id # NULL
        THEN [st EXCEPT !.id_map = (c.id :> existing_id[1]) @@ st.id_map]
        ELSE [comments |-> Append(st.comments,
                                  Comment(new_id, c.timestamp, c.author, c.content,
                                          c.status, new_parent_id)),
              id_map |-> (c.id :> new_id) @@ st.id_map]

RECURSIVE import_comment_loop(_, _)
import_comment_loop(st, source_comments) ==
    IF source_comments = <<>> THEN st
    ELSE import_comment_loop(import_one_comment(st, Head(source_comments)),
                             Tail(source_comments))

import_comments(source_comments, table) ==
    import_comment_loop([comments |-> table, id_map |-> <<>>], source_comments).comments

\* import_patches_from_document(source_path, target_doc_id, app)
\*   -> Result<Vec<Patch>, String>
import_patches_from_document ==
    LET source_patches == source_save_patches(source)
        db == ensure_schema(patches, uuid_gen)
        st == import_patch_loop([patches |-> db.patches, snapshots |-> snapshots,
                                 gen |-> db.gen, imported |-> <<>>],
                                source, source_patches)
        rv == import_reviews(source.patch_reviews, patch_reviews)
    IN  /\ Len(patches) + Len(source_patches) <= MaxPatches
        /\ patches' = st.patches
        /\ snapshots' = st.snapshots
        /\ uuid_gen' = st.gen
        /\ patch_reviews' = rv.patch_reviews
        /\ written' = IF rv.ok
                      THEN [k \in {<<r.patch_uuid, r.reviewer_id>> : r \in source.patch_reviews}
                            |-> (CHOOSE r \in source.patch_reviews :
                                     k = <<r.patch_uuid, r.reviewer_id>>).decision] @@ written
                      ELSE written
        /\ comments' = IF rv.ok THEN import_comments(source.comments, comments) ELSE comments
        /\ last' = Call("import_patches_from_document", NULL, rv.ok,
                        IF rv.ok THEN st.imported ELSE <<>>)
        /\ UNCHANGED <<source, now>>
        /\ UNCHANGED <<detector_vars, conflict_vars, build_vars, manager_vars>>

(***************************************************************************)
(* Inputs and initial states.                                              *)
(***************************************************************************)
\* The payloads a patch of a kind carries: a Save checkpoint is an object
\* with one of the given "snapshot" options, an edit an array of operations.
DataOf(kind, snapshot_options) ==
    IF kind = "Save" THEN {ObjectData(s) : s \in snapshot_options} ELSE {ArrayData(<<>>)}

PatchInputs(times, authors, kinds, snapshot_options, uuids, parents) ==
    UNION {{PatchInput(t, a, k, d, u, pu) : d \in DataOf(k, snapshot_options)} :
           t \in times, a \in authors, k \in kinds, u \in uuids, pu \in parents}

\* A history written by this program: the snapshots rows are those
\* record_document_patch wrote beside its Save patches.
SnapshotsOf(table) ==
    LET with_snapshot(p) == p.kind = "Save" /\ p.data.snapshot # NULL
        rows == SelectSeq(table, with_snapshot)
    IN  [i \in 1..Len(rows) |->
            Snapshot(i, rows[i].timestamp, rows[i].id, rows[i].data.snapshot[1])]

UniqueUuids(table) ==
    \A i, j \in 1..Len(table) :
        (i # j /\ table[i].uuid # NULL) => table[i].uuid # table[j].uuid

\* The patches tables of at most n rows over the inputs, ids in row order,
\* the unique index on uuid respected.
PatchTables(inputs, n) ==
    UNION {{t \in [1..k -> {Patch(0, p) : p \in inputs}] : UniqueUuids(t)} : k \in 0..n}

Numbered(table) == [i \in 1..Len(table) |-> [table[i] EXCEPT !.id = i]]

History(table, reviews, cmts) ==
    [patches |-> Numbered(table), snapshots |-> SnapshotsOf(Numbered(table)),
     patch_reviews |-> reviews, comments |-> cmts]


\* The source histories of the import: Save and edit patches, with and
\* without a uuid (a history written before the uuid column has none).
SourceInputs == PatchInputs({2}, {"bob"}, {"Save", "semantic_group"}, {Some("text")},
                            {NULL, <<"given", 1>>}, {NULL})
SourceReviews == {PatchReview(<<"given", 1>>, "alice", "rejected", Some("Alice"), 1)}
SourceComments == <<Comment(1, 1, "bob", "root", "unresolved", NULL),
                    Comment(2, 2, "alice", "reply", "unresolved", Some(1))>>
SourceHistories ==
    {History(t, SourceReviews, SourceComments) : t \in PatchTables(SourceInputs, MaxSrcPatches)}

\* A new document's history is empty; one written before the uuid column
\* existed holds rows whose uuid is NULL.
LegacyPatch == PatchInput(1, "bob", "Save", ObjectData(Some("text")), NULL, NULL)
InitialTables == {<<>>, <<Patch(1, LegacyPatch)>>}

StoreInit(tables, sources) ==
    /\ patches \in tables
    /\ snapshots = <<>>
    /\ patch_reviews = {}
    /\ comments = <<>>
    /\ source \in sources
    /\ uuid_gen = 0
    /\ now = 0
    /\ last = Call("open", NULL, TRUE, NULL)
    /\ written = <<>>

\* No history to import from.
EmptySource == History(<<>>, {}, <<>>)

\* The detector before a call.
NotRun == [ran |-> FALSE, time_groups |-> <<>>, conflicts |-> <<>>]

DetectorInit(inputs) ==
    /\ detector_input \in inputs
    /\ detector_output = NotRun

\* conflict_store::init_conflict_tables on a new database.
ConflictStoreInit ==
    /\ conflicts_v2 = <<>>
    /\ calls = <<>>

\* The build's foreign-key default.  It bears on save_snapshot and
\* save_document_snapshot alone, the only statements that write a patch_id
\* the caller chose.
BuildInit(options) == foreign_keys \in options

\* DocumentManager::default(), and a file system without KMD files.
FilePaths == {"a.kmd", "b.kmd"}
ManagerInit ==
    /\ documents = <<>>
    /\ active_document_id = NULL
    /\ doc_gen = 0
    /\ disk = [p \in FilePaths |-> NULL]
    /\ save_task = NULL

(***************************************************************************)
(* The patch store under appends and imports.                              *)
(***************************************************************************)
AppendInputs == PatchInputs({1}, {"alice"}, {"Save", "semantic_group"}, {Some("text")},
                            {NULL, <<"given", 1>>}, {NULL})

Init == StoreInit(InitialTables, SourceHistories) /\ DetectorInit({<<>>}) /\ ConflictStoreInit /\ ManagerInit /\ BuildInit({FALSE})

Next ==
    \/ \E p \in AppendInputs : record_patch(p, NULL)
    \/ \E p \in AppendInputs : record_document_patch(p)
    \/ import_patches_from_document
    \/ list_patches

vars == <<store_vars, detector_vars, conflict_vars, build_vars, manager_vars>>

Spec == Init /\ [][Next]_vars

(***************************************************************************)
(* Properties of the patch store and the import.                           *)
(***************************************************************************)
IsImport(call) == call.op = "import_patches_from_document"
IsAppend(call) == call.op \in {"record_patch", "record_document_patch"}

\* C1: importing the same source into the same target twice in succession
\* leaves the target with as many patches as after the first import,
\* whether or not the source's Save patches carry a uuid.
C1_ReimportKeepsPatchCount ==
    [][(IsImport(last) /\ IsImport(last')) => Len(patches') = Len(patches)]_vars

\* C2: no two stored patches have the same non-null uuid, and an append that
\* supplies a uuid already present fails and adds no patch.
C2_UuidUnique ==
    /\ [](UniqueUuids(patches))
    /\ [][(/\ IsAppend(last')
           /\ last'.arg.uuid # NULL
           /\ UuidExists(patches, last'.arg.uuid))
          => (~last'.ok /\ Len(patches') = Len(patches))]_vars

\* An append was refused because its uuid is stored, in a history that also
\* holds imported patches.
C2_Witness ==
    /\ IsAppend(last) /\ ~last.ok
    /\ UuidExists(patches, last.arg.uuid)
    /\ Len(patches) >= 2

IsList(call) == call.op = "list_patches"
Ids(rows) == [i \in 1..Len(rows) |-> rows[i].id]
Increasing(ids) == \A i \in 1..(Len(ids) - 1) : ids[i] < ids[i + 1]

\* C12: the stored patches carry strictly increasing ids in the order they
\* were appended or imported: a step keeps the ids of the stored rows and
\* gives every new row an id above them; and list() returns all the stored
\* patches in ascending id order, whatever their timestamps.
C12_IdsIncreaseListById ==
    /\ [](Increasing(Ids(patches)))
    /\ [][/\ Len(patches') >= Len(patches)
          /\ SubSeq(Ids(patches'), 1, Len(patches)) = Ids(patches)]_vars
    /\ [](IsList(last) => (Increasing(Ids(last.result))
                           /\ {last.result[k] : k \in 1..Len(last.result)}
                                  = {patches[i] : i \in 1..Len(patches)}))

\* list() returned three patches, the first of which is not the oldest.
C12_Witness ==
    /\ IsList(last)
    /\ Len(last.result) = 3
    /\ last.result[1].timestamp > last.result[2].timestamp

\* C13: the patch store is append-only: a step removes no stored patch and
\* changes no field of one, a patch stored without a uuid included.
C13_AppendOnly ==
    [][/\ Len(patches') >= Len(patches)
       /\ \A i \in 1..Len(patches) : patches'[i] = patches[i]]_vars

(***************************************************************************)
(* Appends with and without a uuid and a parent.                           *)
(***************************************************************************)
\* The patch names a parent or not, and so does the command's argument.
ParentedInputs ==
    PatchInputs({1}, {"alice"}, {"Save"}, {Some("text")},
                {NULL, <<"given", 1>>}, {NULL, <<"given", 2>>})
ParentArguments == {NULL, <<"given", 1>>}

InitAppend ==
    /\ StoreInit(InitialTables, {EmptySource})
    /\ DetectorInit({<<>>}) /\ ConflictStoreInit /\ ManagerInit /\ BuildInit({FALSE})

NextAppend ==
    \/ \E p \in ParentedInputs, parent \in ParentArguments : record_patch(p, parent)
    \/ list_patches

SpecAppend == InitAppend /\ [][NextAppend]_vars

IsRecordPatch(call) == call.op = "record_patch"

\* C15: a successful append adds one row; its uuid is the caller's when one
\* was given and otherwise a new one that no other row has; its parent_uuid
\* is the given one (the patch's own, else the argument's); and the call
\* returns the uuid of that row.
C15_AppendStoresUuidAndParent ==
    [][(IsRecordPatch(last') /\ last'.ok) =>
          LET row == patches'[Len(patches')]
              rest == SubSeq(patches', 1, Len(patches') - 1)
          IN  /\ Len(patches') = Len(patches) + 1
              /\ IF last'.arg.uuid # NULL
                 THEN row.uuid = last'.arg.uuid
                 ELSE row.uuid # NULL /\ ~UuidExists(rest, row.uuid)
                      /\ ~UuidExists(patches, row.uuid)
              /\ row.parent_uuid = IF last'.arg.parent_uuid # NULL
                                   THEN last'.arg.parent_uuid
                                   ELSE last'.arg.parent_argument
              /\ last'.result = row.uuid]_vars

\* An append without a uuid, with a parent in the patch and another in the
\* argument, has returned the uuid of the third row.
C15_Witness ==
    /\ IsRecordPatch(last) /\ last.ok
    /\ last.arg.uuid = NULL
    /\ last.arg.parent_uuid # NULL
    /\ last.arg.parent_argument # NULL
    /\ Len(patches) = 3
    /\ last.result = patches[3].uuid

(***************************************************************************)
(* The snapshots table under appends, snapshot saves, lookups and imports. *)
(***************************************************************************)
MaxSnapshots == 3    \* rows the snapshots table may grow to

\* Checkpoints with and without the text that record_document_patch copies
\* into the snapshots table.
SnapshotAppendInputs ==
    PatchInputs({1}, {"alice"}, {"Save"}, {Some("text"), NULL}, {NULL}, {NULL})

\* A foreign history with one checkpoint and its snapshot.
SnapshotSources ==
    {History(<<Patch(1, PatchInput(2, "bob", "Save", ObjectData(Some("text")),
                                   <<"given", 1>>, NULL))>>, {}, <<>>)}

SnapshotStates == {"", "yjs", "oversized"}
SnapshotPatchIds == 1..MaxPatches

InitSnapshot ==
    /\ StoreInit(InitialTables, SnapshotSources)
    /\ DetectorInit({<<>>}) /\ ConflictStoreInit /\ ManagerInit /\ BuildInit(BOOLEAN)

NextSnapshot ==
    \/ \E p \in SnapshotAppendInputs :
           Len(snapshots) < MaxSnapshots /\ record_document_patch(p)
    \/ \E n \in SnapshotPatchIds, st \in SnapshotStates :
           Len(snapshots) < MaxSnapshots /\ save_snapshot(n, st)
    \/ \E n \in SnapshotPatchIds, st \in SnapshotStates :
           Len(snapshots) < MaxSnapshots /\ save_document_snapshot(n, st)
    \/ \E n \in SnapshotPatchIds : get_snapshot_for_patch(n)
    \/ Len(snapshots) < MaxSnapshots /\ import_patches_from_document

SpecSnapshot == InitSnapshot /\ [][NextSnapshot]_vars

\* C14: every stored snapshot's patch_id is the id of a stored patch.
C14_SnapshotReferencesPatch ==
    \A i \in 1..Len(snapshots) : references_patch(patches, snapshots[i].patch_id)

IsNearest(call) == call.op = "get_snapshot_for_patch"
AtOrBefore(n) == {i \in 1..Len(snapshots) : snapshots[i].patch_id <= n}

\* C20: nearest_snapshot_at_or_before(n) returns a stored snapshot whose
\* patch_id is the greatest patch_id at or below n among the stored
\* snapshots, and returns none exactly when no stored snapshot has a
\* patch_id at or below n.
C20_NearestSnapshot ==
    IsNearest(last) =>
        /\ (last.result = NULL) <=> (AtOrBefore(last.arg) = {})
        /\ last.result # NULL =>
               /\ \E i \in AtOrBefore(last.arg) : snapshots[i] = last.result[1]
               /\ \A j \in AtOrBefore(last.arg) :
                      snapshots[j].patch_id <= last.result[1].patch_id

\* The lookup returned a snapshot although a newer row lies further back and
\* another row lies beyond the patch asked for.
C20_Witness ==
    /\ IsNearest(last)
    /\ last.result # NULL
    /\ \E j \in AtOrBefore(last.arg) :
           snapshots[j].id > last.result[1].id
           /\ snapshots[j].patch_id < last.result[1].patch_id
    /\ \E j \in 1..Len(snapshots) : snapshots[j].patch_id > last.arg

IsSaveSnapshot(call) == call.op \in {"save_snapshot", "save_document_snapshot"}

\* C21: save_snapshot and save_document_snapshot with an empty payload, or
\* one of more than MAX_SNAPSHOT_SIZE bytes, return an error and leave the
\* stored snapshots as they were.
C21_InvalidSnapshotRejected ==
    [][(IsSaveSnapshot(last') /\ state_len(last'.arg.state) \notin 1..MAX_SNAPSHOT_SIZE)
          => (~last'.ok /\ snapshots' = snapshots)]_vars

\* A payload one byte over the maximum was refused for a patch that exists,
\* with a snapshot already stored.
C21_Witness ==
    /\ IsSaveSnapshot(last)
    /\ last.arg.state = "oversized"
    /\ ~last.ok
    /\ references_patch(patches, last.arg.patch_id)
    /\ snapshots # <<>>

(***************************************************************************)
(* Imports of checkpoints with and without snapshots.                      *)
(***************************************************************************)
\* Source checkpoints at distinct times, with no snapshot text or one of
\* two, with and without a uuid; and a source whose checkpoint has a second
\* snapshot, one that save_snapshot wrote.
RelinkInputs ==
    PatchInputs({2, 3}, {"bob"}, {"Save"}, {NULL, Some("one"), Some("two")},
                {NULL, <<"given", 1>>}, {NULL})
DistinctTimes(table) ==
    \A i, j \in 1..Len(table) : i # j => table[i].timestamp # table[j].timestamp
TwiceSaved ==
    LET h == History(<<Patch(1, PatchInput(2, "bob", "Save", ObjectData(Some("one")),
                                           NULL, NULL))>>, {}, <<>>)
    IN  [h EXCEPT !.snapshots = Append(h.snapshots, Snapshot(2, 3, 1, "yjs"))]
RelinkSources ==
    {History(t, {}, <<>>) : t \in {t \in PatchTables(RelinkInputs, MaxSrcPatches) :
                                      DistinctTimes(t)}}
    \cup {TwiceSaved}
RelinkAppendInputs ==
    PatchInputs({1}, {"alice"}, {"Save"}, {Some("text")}, {NULL, <<"given", 1>>}, {NULL})

InitRelink ==
    /\ StoreInit(InitialTables, RelinkSources)
    /\ DetectorInit({<<>>}) /\ ConflictStoreInit /\ ManagerInit /\ BuildInit({FALSE})

NextRelink ==
    \/ \E p \in RelinkAppendInputs : record_document_patch(p)
    \/ import_patches_from_document

SpecRelink == InitRelink /\ [][NextRelink]_vars

\* The source rows an imported patch was read from: the same but for the id,
\* and for the uuid where the source had none.
SourceOf(q) ==
    {i \in 1..Len(source.patches) :
        LET sp == source.patches[i]
        IN  /\ sp.kind = "Save"
            /\ sp.timestamp = q.timestamp /\ sp.author = q.author
            /\ sp.data = q.data /\ sp.parent_uuid = q.parent_uuid
            /\ sp.uuid \in {NULL, q.uuid}}

SourceStates(i) ==
    {source.snapshots[j].state :
        j \in {j \in 1..Len(source.snapshots) :
                  source.snapshots[j].patch_id = source.patches[i].id}}

\* C24: an import keeps the target's snapshots and adds, for each patch it
\* inserted whose source row has a snapshot, exactly one snapshot under the
\* id the patch was given in the target, with a state the source stores for
\* it; it adds none for an inserted patch without a snapshot and none for a
\* patch it skipped.
C24_ImportRelinksSnapshots ==
    [][(IsImport(last') /\ last'.ok) =>
          LET imported == last'.result
              added == SubSeq(snapshots', Len(snapshots) + 1, Len(snapshots'))
              rows(q) == {j \in 1..Len(added) : added[j].patch_id = q.id}
          IN  /\ Len(snapshots') >= Len(snapshots)
              /\ SubSeq(snapshots', 1, Len(snapshots)) = snapshots
              /\ \A k \in 1..Len(imported) :
                     LET q == imported[k]
                     IN  /\ ~references_patch(patches, q.id)
                         /\ \E i \in 1..Len(patches') : patches'[i] = q
                         /\ \A i \in SourceOf(q) :
                                IF SourceStates(i) = {} THEN rows(q) = {}
                                ELSE /\ Cardinality(rows(q)) = 1
                                     /\ \A j \in rows(q) : added[j].state \in SourceStates(i)
              /\ \A j \in 1..Len(added) :
                     \E k \in 1..Len(imported) : added[j].patch_id = imported[k].id]_vars

\* An import skipped the source's second checkpoint, whose uuid the target
\* had, and inserted its first under another id than the source's; the
\* snapshot "one" of the first is stored under the new id and the snapshot
\* "two" of the skipped one is not stored.
C24_Witness ==
    /\ IsImport(last) /\ last.ok
    /\ Len(source.patches) = 2
    /\ Len(last.result) = 1
    /\ SourceOf(last.result[1]) = {1}
    /\ last.result[1].id = 2
    /\ SourceStates(1) = {"one"}
    /\ SourceStates(2) = {"two"}
    /\ \E j \in 1..Len(snapshots) :
           snapshots[j].patch_id = 2 /\ snapshots[j].state = "one"
    /\ \A j \in 1..Len(snapshots) : snapshots[j].state # "two"

(***************************************************************************)
(* Imports of comment threads.                                             *)
(***************************************************************************)
\* The comments tables add_comment can have written, one comment per
\* millisecond from 1 on: each names no parent or the id of a comment, one
\* that exists by then (itself included) when the build enforces foreign
\* keys and any id when it does not.
CommentTables(enforced) ==
    UNION {{[i \in 1..n |-> Comment(i, i, "bob", "c", "unresolved", parents[i])] :
               parents \in {f \in [1..n -> {NULL} \cup {Some(k) : k \in 1..n}] :
                               enforced => \A i \in 1..n : f[i] = NULL \/ f[i][1] <= i}} :
           n \in 0..MaxComments}

CommentSources(enforced) == {History(<<>>, {}, cmts) : cmts \in CommentTables(enforced)}

InitComments ==
    /\ ManagerInit /\ BuildInit(BOOLEAN)
    /\ StoreInit({<<>>}, CommentSources(foreign_keys))
    /\ DetectorInit({<<>>}) /\ ConflictStoreInit

NextComments ==
    \/ \E parent_id \in {NULL, Some(1)} : add_comment("bob", "c", parent_id)
    \/ import_patches_from_document
    \/ Tick

SpecComments == InitComments /\ [][NextComments]_vars

SameComment(x, c) ==
    x.timestamp = c.timestamp /\ x.author = c.author /\ x.content = c.content

\* C25: after an import, every comment it inserted for a source reply whose
\* parent is a comment of the source has as parent_id the target id of the
\* comment that corresponds to that parent.
C25_RepliesRemapped ==
    [][(IsImport(last') /\ last'.ok) =>
          \A j \in (Len(comments) + 1)..Len(comments') :
              \A i, k \in 1..Len(source.comments) :
                  (/\ SameComment(comments'[j], source.comments[i])
                   /\ source.comments[i].parent_id = Some(source.comments[k].id))
                  => \E t \in 1..Len(comments') :
                         /\ SameComment(comments'[t], source.comments[k])
                         /\ comments'[j].parent_id = Some(comments'[t].id)]_vars

(***************************************************************************)
(* The review ledger under appends, reviews, queries and imports.          *)
(***************************************************************************)
ReviewAppendInputs == PatchInputs({1}, Authors, {"Save"}, {Some("text")}, {NULL}, {NULL})
ReviewSourceInputs == PatchInputs({2}, Authors, {"Save"}, {Some("text")},
                                  {<<"given", 1>>}, {NULL})
ReviewSources ==
    {History(t, SourceReviews, SourceComments) :
        t \in PatchTables(ReviewSourceInputs, MaxSrcPatches)}
ReviewedUuids == {<<"given", 1>>}
Decisions == {"accepted", "rejected", "maybe"}
ReviewerNames == {Some("Rev")}

InitReview == StoreInit({<<>>}, ReviewSources) /\ DetectorInit({<<>>}) /\ ConflictStoreInit /\ ManagerInit /\ BuildInit({FALSE})

NextReview ==
    \/ \E p \in ReviewAppendInputs : record_document_patch(p)
    \/ \E u \in ReviewedUuids, r \in Authors, d \in Decisions, n \in ReviewerNames :
           record_patch_review(u, r, d, n)
    \/ \E u \in ReviewedUuids, r \in Authors, d \in Decisions, n \in ReviewerNames :
           record_document_patch_review(u, r, d, n)
    \/ \E r \in Authors : get_patches_needing_review(r)
    \/ import_patches_from_document
    \/ Tick

SpecReview == InitReview /\ [][NextReview]_vars

(***************************************************************************)
(* Properties of the review ledger.                                        *)
(***************************************************************************)
IsReviewWrite(call) == call.op \in {"record_patch_review", "record_document_patch_review"}
IsNeedsReview(call) == call.op = "get_patches_needing_review"
RowsOf(patch_uuid, reviewer_id) ==
    {x \in patch_reviews : x.patch_uuid = patch_uuid /\ x.reviewer_id = reviewer_id}

\* C3: the ledger holds at most one row per (patch_uuid, reviewer_id), and
\* that row carries the decision of the latest successful write for the
\* pair, by record_review or by a review import.
C3_ReviewUpsert ==
    /\ \A x, y \in patch_reviews :
           (x.patch_uuid = y.patch_uuid /\ x.reviewer_id = y.reviewer_id) => x = y
    /\ \A k \in DOMAIN written :
           \E x \in RowsOf(k[1], k[2]) : x.decision = written[k]

\* alice's "rejected" for the patch came in with an import (which also brought
\* the comments), and her later record_review "accepted" has replaced it.
C3_Witness ==
    /\ last = Call("record_patch_review",
                   ReviewArg(<<"given", 1>>, "alice", "accepted", Some("Rev")), TRUE, NULL)
    /\ comments # <<>>
    /\ RowsOf(<<"given", 1>>, "alice") =
           {PatchReview(<<"given", 1>>, "alice", "accepted", Some("Rev"), now)}

\* C4: record_review with a decision other than "accepted" or "rejected"
\* returns an error and leaves the ledger as it was.
C4_InvalidDecisionRejected ==
    [][(IsReviewWrite(last') /\ last'.arg.decision \notin {"accepted", "rejected"})
       => (~last'.ok /\ patch_reviews' = patch_reviews)]_vars

\* A "maybe" for a pair that has a row was refused, and the row is there.
C4_Witness ==
    /\ IsReviewWrite(last) /\ last.arg.decision = "maybe" /\ ~last.ok
    /\ \E x \in RowsOf(last.arg.patch_uuid, last.arg.reviewer_id) : x.decision = "accepted"

\* C10: needs_review(r) never contains a patch whose author is r.
C10_OwnPatchesExcluded ==
    /\ \A r \in Authors :
           LET result == patches_needing_review(patches, patch_reviews, r)
           IN  \A i \in 1..Len(result) : result[i].author # r
    /\ IsNeedsReview(last) =>
           \A i \in 1..Len(last.result) : last.result[i].author # last.arg

\* The query ran for a reviewer who has authored a patch nobody has
\* reviewed, and it returned another author's patch.
C10_Witness ==
    /\ IsNeedsReview(last) /\ last.result # <<>>
    /\ \E i \in 1..Len(patches) :
           /\ patches[i].author = last.arg
           /\ patches[i].uuid # NULL
           /\ ~\E x \in patch_reviews : x.patch_uuid = patches[i].uuid

\* C11: needs_review(r) returns, each once and in ascending timestamp
\* order, exactly the stored patches whose author is not r, whose uuid is
\* not NULL and that have no review row (uuid, r); rows of other reviewers
\* do not count.
C11_NeedsReviewExact ==
    IsNeedsReview(last) =>
        LET r == last.arg
            result == last.result
            due == {i \in 1..Len(patches) :
                       /\ patches[i].author # r
                       /\ patches[i].uuid # NULL
                       /\ RowsOf(patches[i].uuid, r) = {}}
        IN  /\ {result[k] : k \in 1..Len(result)} = {patches[i] : i \in due}
            /\ Len(result) = Cardinality(due)
            /\ \A k \in 1..(Len(result) - 1) : result[k].timestamp <= result[k + 1].timestamp

\* The query returned two patches, the later-stored one first because it is
\* the older, and one of them has been reviewed, by somebody else.
C11_Witness ==
    /\ IsNeedsReview(last)
    /\ Len(last.result) = 2
    /\ last.result[1].id > last.result[2].id
    /\ \E k \in 1..2 : \E x \in patch_reviews :
           x.patch_uuid = last.result[k].uuid /\ x.reviewer_id # last.arg

PairOfReview(x) == <<x.patch_uuid, x.reviewer_id>>
SourcePairs == {PairOfReview(r) : r \in source.patch_reviews}

\* C23: after an import the target holds, for every review row of the
\* source, exactly one row of that (patch_uuid, reviewer_id) pair, and it is
\* the source's row (decision, reviewer name, review time); the target's
\* rows of pairs the source lacks are as they were.
C23_ImportUpsertsReviews ==
    [][(IsImport(last') /\ last'.ok) =>
          /\ \A r \in source.patch_reviews :
                 {x \in patch_reviews' : PairOfReview(x) = PairOfReview(r)} = {r}
          /\ {x \in patch_reviews' : PairOfReview(x) \notin SourcePairs}
                 = {x \in patch_reviews : PairOfReview(x) \notin SourcePairs}]_vars

\* After an import at a time later than the source's review, the target
\* holds the source's row beside a row of another reviewer written here.
C23_Witness ==
    /\ IsImport(last) /\ last.ok
    /\ now > 0
    /\ source.patch_reviews \subseteq patch_reviews
    /\ \E r \in source.patch_reviews : \E x \in patch_reviews :
           /\ x.patch_uuid = r.patch_uuid
           /\ x.reviewer_id # r.reviewer_id
           /\ x.decision = "accepted"

(***************************************************************************)
(* Parent status under appends with parents and reviews of the parents.    *)
(***************************************************************************)
\* Two patches, the second of which may name the first as its parent, and a
\* patch whose parent was never stored here.
ChildInputs ==
    PatchInputs({1}, {"alice"}, {"Save"}, {Some("text")},
                GivenUuids, {NULL, <<"given", 1>>, <<"given", 3>>})
ParentDecisions == {"accepted", "rejected"}
ParentReviewerNames == {Some("Rev")}
ReviewedParents == {<<"given", 1>>}
QueriedUuids == GivenUuids \cup {<<"given", 3>>}

InitParent ==
    /\ StoreInit({<<>>}, {EmptySource})
    /\ DetectorInit({<<>>}) /\ ConflictStoreInit /\ ManagerInit /\ BuildInit({FALSE})

NextParent ==
    \/ \E p \in ChildInputs : record_document_patch(p)
    \/ \E u \in ReviewedParents, r \in Authors, d \in ParentDecisions,
          n \in ParentReviewerNames :
           record_document_patch_review(u, r, d, n)
    \/ \E u \in QueriedUuids, r \in Authors : check_parent_patch_status(u, r)

SpecParent == InitParent /\ [][NextParent]_vars

IsParentStatus(call) == call.op = "check_parent_patch_status"

\* The stored patch of this uuid names a parent that the reviewer's review
\* row rejects.
ParentRejectedBy(patch_uuid, reviewer_id) ==
    \E i \in 1..Len(patches) :
        /\ patches[i].uuid = patch_uuid
        /\ patches[i].parent_uuid # NULL
        /\ \E pr \in patch_reviews :
               /\ pr.patch_uuid = patches[i].parent_uuid
               /\ pr.reviewer_id = reviewer_id
               /\ pr.decision = "rejected"

\* C22: check_parent_patch_status(p, r) answers parent_rejected = true
\* exactly when the patch p names a parent and the review row of reviewer r
\* for that parent says rejected; a rejection by another reviewer, or one
\* that r has since replaced by an acceptance, gives false; and
\* rejected_by_name is given only together with parent_rejected = true.
C22_ParentRejectedIffOwnRejection ==
    IsParentStatus(last) =>
        /\ last.result.parent_rejected
               <=> ParentRejectedBy(last.arg.patch_uuid, last.arg.reviewer_id)
        /\ last.result.rejected_by_name # NULL => last.result.parent_rejected
        /\ (written # <<>> /\ \A k \in DOMAIN written :
                k[2] = last.arg.reviewer_id => written[k] = "accepted")
               => ~last.result.parent_rejected

\* The parent was rejected by the other reviewer and the asking reviewer's
\* row for it says accepted: the answer is has_parent without a rejection.
C22_Witness ==
    /\ IsParentStatus(last)
    /\ last.result.has_parent
    /\ ~last.result.parent_rejected
    /\ \E pr \in patch_reviews :
           /\ pr.patch_uuid = last.result.parent_uuid
           /\ pr.reviewer_id # last.arg.reviewer_id
           /\ pr.decision = "rejected"
    /\ \E pr \in patch_reviews :
           /\ pr.patch_uuid = last.result.parent_uuid
           /\ pr.reviewer_id = last.arg.reviewer_id
           /\ pr.decision = "accepted"

(***************************************************************************)
(* conflict_detector.rs                                                    *)
(***************************************************************************)
\* ConflictDetector::new(5000), the window of the detect_conflicts command.
concurrency_window == 5000

\* An element of a semantic_group payload, a JSON object; a field that is
\* absent or of another JSON type is NULL.  range holds the array's leading
\* elements; a number that is not a u64 is negative here.
JsonOp(kind, at, range, insertedText, deletedText) ==
    [kind |-> kind, at |-> at, range |-> range,
     insertedText |-> insertedText, deletedText |-> deletedText]

EditInfo(start, end, content, author, timestamp, edit_type) ==
    [start |-> start, end |-> end, content |-> content, author |-> author,
     timestamp |-> timestamp, edit_type |-> edit_type]

TextSpan(start, end, content, author, timestamp) ==
    [start |-> start, end |-> end, content |-> content, author |-> author,
     timestamp |-> timestamp]

\* serde_json::Value::as_u64
as_u64(v) == IF v # NULL /\ v[1] >= 0 THEN v ELSE NULL

\* range.get(i).and_then(|v| v.as_u64())
range_get(range, i) == IF i <= Len(range) THEN as_u64(range[i]) ELSE NULL

unwrap_or(v, default) == IF v # NULL THEN v[1] ELSE default

\* parse_single_operation: Some(EditInfo) or None
parse_single_operation(op, patch) ==
    IF op.kind = Some("insert_text") THEN
        IF as_u64(op.at) = NULL \/ op.insertedText = NULL THEN NULL
        ELSE Some(EditInfo(op.at[1], op.at[1], op.insertedText[1],
                           patch.author, patch.timestamp, "Insert"))
    ELSE IF op.kind = Some("delete_text") THEN
        IF range_get(op.range, 1) = NULL \/ range_get(op.range, 2) = NULL THEN NULL
        ELSE Some(EditInfo(op.range[1][1], op.range[2][1], unwrap_or(op.deletedText, ""),
                           patch.author, patch.timestamp, "Delete"))
    ELSE IF op.kind = Some("replace_text") THEN
        IF range_get(op.range, 1) = NULL \/ range_get(op.range, 2) = NULL THEN NULL
        ELSE Some(EditInfo(op.range[1][1], op.range[2][1], unwrap_or(op.insertedText, ""),
                           patch.author, patch.timestamp, "Replace"))
    ELSE NULL

\* extract_all_edit_infos: the operations of an array payload that parse.
RECURSIVE parse_operations(_, _)
parse_operations(ops, patch) ==
    IF ops = <<>> THEN <<>>
    ELSE parse_single_operation(Head(ops), patch) \o parse_operations(Tail(ops), patch)

\* A reader that gives up on a patch at its first operation that does not parse.
extract_edit_infos_all_or_nothing(patch) ==
    IF /\ patch.data.array
       /\ \A k \in 1..Len(patch.data.ops) :
              parse_single_operation(patch.data.ops[k], patch) # NULL
    THEN parse_operations(patch.data.ops, patch)
    ELSE <<>>

extract_all_edit_infos(patch) ==
    IF patch.data.array THEN parse_operations(patch.data.ops, patch) ELSE <<>>

\* ranges_overlap with the inserts compared like any other pair.
ranges_overlap_general_only(a, b) == a.start < b.end /\ b.start < a.end

ranges_overlap(a, b) ==
    IF a.edit_type = "Insert" /\ b.edit_type = "Insert"
    THEN a.start = b.start
    ELSE a.start < b.end /\ b.start < a.end

\* A base span that ends where the local edit ends.
local_end_only(a, b) == a

Min(a, b) == IF a <= b THEN a ELSE b
Max(a, b) == IF a >= b THEN a ELSE b

\* The match of create_conflict with its Delete/Replace arm in one order only.
conflict_type_one_order(local, remote) ==
    IF local.edit_type = "Insert" /\ remote.edit_type = "Insert" THEN "ConcurrentInsert"
    ELSE IF local.edit_type = "Delete" /\ remote.edit_type = "Replace" THEN "DeleteModify"
    ELSE "OverlappingEdit"

\* match (&local.edit_type, &remote.edit_type) { ... }
conflict_type(local, remote) ==
    IF local.edit_type = "Insert" /\ remote.edit_type = "Insert" THEN "ConcurrentInsert"
    ELSE IF \/ (local.edit_type = "Delete" /\ remote.edit_type = "Replace")
            \/ (local.edit_type = "Replace" /\ remote.edit_type = "Delete")
         THEN "DeleteModify"
    ELSE "OverlappingEdit"

\* format!("{}-{}-{}", local.timestamp, remote.timestamp, local.start): the
\* three numbers, which the string determines and is determined by.
format_id(local, remote) == <<local.timestamp, remote.timestamp, local.start>>

\* A conflict whose id is taken from the time of its detection.
create_conflict_id_by_detection_time(local, remote, detected_at) ==
    [id |-> <<local.timestamp, remote.timestamp, detected_at>>,
     conflict_type |-> conflict_type(local, remote),
     base_version |-> TextSpan(Min(local.start, remote.start), Max(local.end, remote.end),
                               "", "base", 0),
     local_version |-> TextSpan(local.start, local.end, local.content, local.author,
                                local.timestamp),
     remote_version |-> TextSpan(remote.start, remote.end, remote.content, remote.author,
                                 remote.timestamp),
     status |-> "Unresolved",
     detected_at |-> detected_at]

\* A conflict whose local version is the second edit of the pair.
create_conflict_sides_swapped(local, remote, detected_at) ==
    [id |-> format_id(local, remote),
     conflict_type |-> conflict_type(local, remote),
     base_version |-> TextSpan(Min(local.start, remote.start), Max(local.end, remote.end),
                               "", "base", 0),
     local_version |-> TextSpan(remote.start, remote.end, remote.content, remote.author,
                                remote.timestamp),
     remote_version |-> TextSpan(local.start, local.end, local.content, local.author,
                                 local.timestamp),
     status |-> "Unresolved",
     detected_at |-> detected_at]

\* create_conflict; detected_at is chrono::Utc::now().
create_conflict(local, remote, detected_at) ==
    [id |-> format_id(local, remote),
     conflict_type |-> conflict_type(local, remote),
     base_version |-> TextSpan(Min(local.start, remote.start), Max(local.end, remote.end),
                               "", "base", 0),
     local_version |-> TextSpan(local.start, local.end, local.content, local.author,
                                local.timestamp),
     remote_version |-> TextSpan(remote.start, remote.end, remote.content, remote.author,
                                 remote.timestamp),
     status |-> "Unresolved",
     detected_at |-> detected_at]

\* A window that no gap exceeds.
within_any_window(window, timestamp, group_start) == TRUE

\* line 51: the patch joins the current group
within_window(window, timestamp, group_start) == timestamp - group_start <= window

\* A window measured from the group's first patch.
anchored_group_start(group_start, patch) == group_start

\* line 54: the window slides to the patch that joined
chained_group_start(group_start, patch) == patch.timestamp

close_group(groups, current_group) ==
    IF current_group # <<>> THEN Append(groups, current_group) ELSE groups

RECURSIVE group_loop(_, _, _, _, _)
group_loop(window, rest, groups, current_group, group_start) ==
    IF rest = <<>> THEN close_group(groups, current_group)
    ELSE LET patch == Head(rest) IN
         IF within_window(window, patch.timestamp, group_start)
         THEN group_loop(window, Tail(rest), groups, Append(current_group, patch),
                         chained_group_start(group_start, patch))
         ELSE group_loop(window, Tail(rest), close_group(groups, current_group),
                         <<patch>>, patch.timestamp)

group_by_time_window(window, list) ==
    IF list = <<>> THEN <<>>
    ELSE group_loop(window, Tail(list), <<>>, <<list[1]>>, list[1].timestamp)

\* patches.iter().flat_map(|p| self.extract_all_edit_infos(p))
RECURSIVE flat_map_edit_infos(_)
flat_map_edit_infos(group) ==
    IF group = <<>> THEN <<>>
    ELSE extract_all_edit_infos(Head(group)) \o flat_map_edit_infos(Tail(group))

\* The pair loop without its author test.
skip_pair_never(a, b) == FALSE

\* line 83: edits of one author are not compared
skip_pair(a, b) == a.author = b.author

\* for i in 0..len { for j in (i + 1)..len { ... } }, from the pair (i, j) on
RECURSIVE compare_pairs(_, _, _, _)
compare_pairs(edits, i, j, detected_at) ==
    IF i > Len(edits) THEN <<>>
    ELSE IF j > Len(edits) THEN compare_pairs(edits, i + 1, i + 2, detected_at)
    ELSE (IF ~skip_pair(edits[i], edits[j]) /\ ranges_overlap(edits[i], edits[j])
          THEN <<create_conflict(edits[i], edits[j], detected_at)>>
          ELSE <<>>)
         \o compare_pairs(edits, i, j + 1, detected_at)

find_overlapping_edits(group, detected_at) ==
    compare_pairs(flat_map_edit_infos(group), 1, 2, detected_at)

AuthorsOf(group) == {group[i].author : i \in 1..Len(group)}

RECURSIVE detect_groups(_, _)
detect_groups(time_groups, detected_at) ==
    IF time_groups = <<>> THEN <<>>
    ELSE (IF Cardinality(AuthorsOf(Head(time_groups))) < 2 THEN <<>>
          ELSE find_overlapping_edits(Head(time_groups), detected_at))
         \o detect_groups(Tail(time_groups), detected_at)

\* A detector that looks at the newest time group only.
detect_conflicts_newest_group(window, list, detected_at) ==
    LET groups == group_by_time_window(window, list)
    IN  IF groups = <<>> THEN <<>> ELSE detect_groups(<<groups[Len(groups)]>>, detected_at)

\* ConflictDetector::detect_conflicts
detect_conflicts(window, list, detected_at) ==
    detect_groups(group_by_time_window(window, list), detected_at)

\* A call of the detector on the list at hand.
Detect ==
    /\ ~detector_output.ran
    /\ detector_output' =
           [ran |-> TRUE,
            time_groups |-> group_by_time_window(concurrency_window, detector_input),
            conflicts |-> detect_conflicts(concurrency_window, detector_input, now)]
    /\ UNCHANGED <<detector_input, store_vars, conflict_vars, build_vars, manager_vars>>

(***************************************************************************)
(* The detector on lists of edit patches.                                  *)
(***************************************************************************)
\* A semantic_group patch as list_patches returns it.
EditPatch(id, timestamp, author, ops) ==
    Patch(id, PatchInput(timestamp, author, "semantic_group", ArrayData(ops), NewV4(id), NULL))

InsertOp(at, text) == JsonOp(Some("insert_text"), Some(at), <<>>, Some(text), NULL)
DeleteOp(start, end, text) ==
    JsonOp(Some("delete_text"), NULL, <<Some(start), Some(end)>>, NULL, Some(text))
ReplaceOp(start, end, text) ==
    JsonOp(Some("replace_text"), NULL, <<Some(start), Some(end)>>, Some(text), NULL)

\* The caller's list grows by one patch before the detector is called.
AddPatch(patch, max) ==
    /\ ~detector_output.ran
    /\ Len(detector_input) < max
    /\ detector_input' = Append(detector_input, patch)
    /\ UNCHANGED <<detector_output, store_vars, conflict_vars, build_vars, manager_vars>>

MaxWindowPatches == 3   \* patches in a list of the windowing specification

\* Gaps of 1000, 4000, 5000 (the window itself), 8000 and 9000 ms; lists in
\* any order, as the detector does not sort what it is given.
WindowTimes == {0, 4000, 8000, 9000}
WindowOps == {<<ReplaceOp(0, 2, "x")>>, <<InsertOp(0, "y"), DeleteOp(0, 1, "a")>>}
WindowChoices == [timestamp : WindowTimes, author : Authors, ops : WindowOps]
WindowPatch(i, c) == EditPatch(i, c.timestamp, c.author, c.ops)

InitWindow ==
    StoreInit({<<>>}, {EmptySource}) /\ DetectorInit({<<>>}) /\ ConflictStoreInit /\ ManagerInit /\ BuildInit({FALSE})

NextWindow ==
    \/ \E c \in WindowChoices :
           AddPatch(WindowPatch(Len(detector_input) + 1, c), MaxWindowPatches)
    \/ Detect

SpecWindow == InitWindow /\ [][NextWindow]_vars

MaxOverlapPatches == 2  \* patches in a list of the overlap specification
MaxPos == 2             \* largest text offset an operation names

Positions == 0..MaxPos
Ranges == {r \in Positions \X Positions : r[1] <= r[2]}

\* Operations the detector reads, and two it passes over: a kind it does not
\* know and a range whose start is not a u64.
OverlapOps ==
    {InsertOp(at, "i") : at \in Positions}
    \cup {DeleteOp(r[1], r[2], "d") : r \in Ranges}
    \cup {ReplaceOp(r[1], r[2], "r") : r \in Ranges}
    \cup {JsonOp(Some("move_text"), Some(0), <<Some(0), Some(1)>>, Some("m"), NULL),
          DeleteOp(-1, 1, "d")}

\* One operation per patch, the patches a second apart: one time group, and
\* a timestamp names its patch.
OverlapChoices == [author : Authors, op : OverlapOps]
OverlapPatch(i, c) == EditPatch(i, 1000 * (i - 1), c.author, <<c.op>>)

InitOverlap ==
    StoreInit({<<>>}, {EmptySource}) /\ DetectorInit({<<>>}) /\ ConflictStoreInit /\ ManagerInit /\ BuildInit({FALSE})

NextOverlap ==
    \/ \E c \in OverlapChoices :
           AddPatch(OverlapPatch(Len(detector_input) + 1, c), MaxOverlapPatches)
    \/ Detect

SpecOverlap == InitOverlap /\ [][NextOverlap]_vars

(***************************************************************************)
(* Claims on the detector.                                                 *)
(***************************************************************************)
RECURSIVE Concat(_)
Concat(groups) == IF groups = <<>> THEN <<>> ELSE Head(groups) \o Concat(Tail(groups))

\* The group holding the i-th patch of the list the groups divide.
RECURSIVE GroupOf(_, _)
GroupOf(groups, i) ==
    IF i <= Len(Head(groups)) THEN 1
    ELSE 1 + GroupOf(Tail(groups), i - Len(Head(groups)))

Ascending(list) == \A i \in 1..(Len(list) - 1) : list[i].timestamp <= list[i + 1].timestamp
Timestamps(list) == [i \in 1..Len(list) |-> list[i].timestamp]
ConflictsOut == {detector_output.conflicts[k] : k \in 1..Len(detector_output.conflicts)}

\* C6: the detector returns no conflict whose local and remote author are
\* the same, and every conflict it returns lies between two patches of a
\* time group that has at least two distinct authors; for a list with fewer
\* than two distinct authors, the empty list and a single patch among them,
\* it returns nothing.
C6_NoSameAuthorConflict ==
    detector_output.ran =>
        LET groups == detector_output.time_groups
            mixed == {g \in 1..Len(groups) : Cardinality(AuthorsOf(groups[g])) >= 2}
            from(span, g) == \E i \in 1..Len(groups[g]) :
                                 /\ groups[g][i].author = span.author
                                 /\ groups[g][i].timestamp = span.timestamp
        IN  /\ \A c \in ConflictsOut : c.local_version.author # c.remote_version.author
            /\ \A c \in ConflictsOut :
                   \E g \in mixed : from(c.local_version, g) /\ from(c.remote_version, g)
            /\ (Cardinality(AuthorsOf(detector_input)) < 2
                    => detector_output.conflicts = <<>>)

\* Two overlapping edits of one author sit in a group that a second author
\* shares, and the call reported conflicts.
C6_Witness ==
    /\ detector_output.ran
    /\ detector_output.conflicts # <<>>
    /\ \E g \in 1..Len(detector_output.time_groups) :
           LET group == detector_output.time_groups[g]
               edits == flat_map_edit_infos(group)
           IN  /\ Cardinality(AuthorsOf(group)) >= 2
               /\ \E i, j \in 1..Len(edits) :
                      /\ i < j
                      /\ edits[i].author = edits[j].author
                      /\ edits[i].timestamp # edits[j].timestamp
                      /\ edits[i].start < edits[j].end /\ edits[j].start < edits[i].end

\* C7: for a list in ascending timestamp order the groups divide the list in
\* order, and two consecutive patches are in one group exactly when their
\* timestamps differ by at most the window; patches at 0, 4000 and 8000 form
\* one group under the window of 5000.
C7_ChainedWindow ==
    (detector_output.ran /\ Ascending(detector_input)) =>
        LET groups == detector_output.time_groups
        IN  /\ Concat(groups) = detector_input
            /\ \A i \in 1..(Len(detector_input) - 1) :
                   (GroupOf(groups, i) = GroupOf(groups, i + 1))
                   <=> (detector_input[i + 1].timestamp - detector_input[i].timestamp
                        <= concurrency_window)
            /\ (Timestamps(detector_input) = <<0, 4000, 8000>> => Len(groups) = 1)

C7_Witness ==
    /\ detector_output.ran
    /\ Timestamps(detector_input) = <<0, 4000, 8000>>
    /\ detector_output.time_groups = <<detector_input>>

Abs(n) == IF n < 0 THEN 0 - n ELSE n

\* The i-th patch of the list is the one a span of a conflict was taken from.
FromPatch(span, i) ==
    /\ detector_input[i].author = span.author
    /\ detector_input[i].timestamp = span.timestamp

\* Between the i-th and the j-th patch the timestamp rises, from one patch
\* of the list to the next, by more than the window.
GapBetween(i, j) ==
    \E k \in i..(j - 1) :
        detector_input[k + 1].timestamp - detector_input[k].timestamp > concurrency_window

\* C16 as stated, for a list in ascending timestamp order: no conflict is
\* reported between two patches whose timestamps differ by more than the
\* concurrency window.
C16_NoConflictBeyondWindow ==
    (detector_output.ran /\ Ascending(detector_input)) =>
        \A c \in ConflictsOut :
            Abs(c.remote_version.timestamp - c.local_version.timestamp) <= concurrency_window

\* C16, amended: every conflict reported lies between two patches of the
\* list with no rise of more than the concurrency window from one patch to
\* the next anywhere between them; patches a chain of smaller steps joins
\* may conflict however far apart their timestamps are.
C16_NoConflictAcrossGap ==
    detector_output.ran =>
        \A c \in ConflictsOut :
            \E i, j \in 1..Len(detector_input) :
                /\ i < j
                /\ FromPatch(c.local_version, i)
                /\ FromPatch(c.remote_version, j)
                /\ ~GapBetween(i, j)

\* Two authors replace the same text 9000 ms apart, the later patch second,
\* and the call reported nothing.
C16_Witness ==
    /\ detector_output.ran
    /\ Len(detector_input) = 2
    /\ detector_input[1].author # detector_input[2].author
    /\ detector_input[1].data.ops = <<ReplaceOp(0, 2, "x")>>
    /\ detector_input[2].data.ops = <<ReplaceOp(0, 2, "x")>>
    /\ detector_input[2].timestamp - detector_input[1].timestamp = 9000
    /\ detector_output.conflicts = <<>>

\* The two edits a conflict lies between, whichever was taken as local.
PairOf(c) == {c.local_version, c.remote_version}
PairsOf(conflicts) == {PairOf(conflicts[k]) : k \in 1..Len(conflicts)}

\* C17: the pairs of edits reported for a list are the pairs reported for
\* the same patches in ascending timestamp order.
C17_OrderIndependent ==
    detector_output.ran =>
        PairsOf(detector_output.conflicts)
            = PairsOf(detect_conflicts(concurrency_window,
                                       OrderByTimestamp(detector_input), now))

\* In the overlap specification a timestamp names one patch and the patch
\* holds one operation.
OpAt(timestamp) ==
    (CHOOSE q \in {detector_input[i] : i \in 1..Len(detector_input)} :
         q.timestamp = timestamp).data.ops[1]

\* C8: a conflict between two Inserts is a ConcurrentInsert, one between a
\* Delete and a Replace in either order is a DeleteModify, every other one
\* is an OverlappingEdit, and none is a StructuralConflict.
C8_Classification ==
    detector_output.ran =>
        \A c \in ConflictsOut :
            LET l == OpAt(c.local_version.timestamp).kind[1]
                r == OpAt(c.remote_version.timestamp).kind[1]
            IN  /\ c.conflict_type # "StructuralConflict"
                /\ c.conflict_type =
                       IF l = "insert_text" /\ r = "insert_text" THEN "ConcurrentInsert"
                       ELSE IF {l, r} = {"delete_text", "replace_text"} THEN "DeleteModify"
                       ELSE "OverlappingEdit"

\* A Replace followed by a Delete of another author was reported.
C8_Witness ==
    /\ detector_output.ran
    /\ \E c \in ConflictsOut :
           /\ c.conflict_type = "DeleteModify"
           /\ OpAt(c.local_version.timestamp).kind = Some("replace_text")
           /\ OpAt(c.remote_version.timestamp).kind = Some("delete_text")

IsInsert(op) == op.kind = Some("insert_text")
StartOf(op) == IF IsInsert(op) THEN op.at[1] ELSE op.range[1][1]
EndOf(op) == IF IsInsert(op) THEN op.at[1] ELSE op.range[2][1]
Reported(p, q) ==
    \E c \in ConflictsOut :
        {c.local_version.timestamp, c.remote_version.timestamp} = {p.timestamp, q.timestamp}

\* C9: two edits of different authors in one time group are reported as a
\* conflict exactly when both are Inserts at the same position, or they are
\* not both Inserts and each starts before the other ends.
C9_OverlapRule ==
    detector_output.ran =>
        \A i, j \in 1..Len(detector_input) :
            LET p == detector_input[i]
                q == detector_input[j]
                a == p.data.ops[1]
                b == q.data.ops[1]
            IN  (/\ i < j
                 /\ p.author # q.author
                 /\ GroupOf(detector_output.time_groups, i)
                        = GroupOf(detector_output.time_groups, j)
                 /\ parse_single_operation(a, p) # NULL
                 /\ parse_single_operation(b, q) # NULL)
                => (Reported(p, q) <=>
                        IF IsInsert(a) /\ IsInsert(b) THEN StartOf(a) = StartOf(b)
                        ELSE StartOf(a) < EndOf(b) /\ StartOf(b) < EndOf(a))

\* Two authors inserted at one position and the pair was reported.
C9_Witness ==
    /\ detector_output.ran
    /\ Len(detector_input) = 2
    /\ detector_input[1].author # detector_input[2].author
    /\ IsInsert(detector_input[1].data.ops[1])
    /\ IsInsert(detector_input[2].data.ops[1])
    /\ detector_input[1].data.ops[1].at = detector_input[2].data.ops[1].at
    /\ Reported(detector_input[1], detector_input[2])

(***************************************************************************)
(* conflict_store.rs: the table conflicts_v2 of korppi_conflicts.db.       *)
(***************************************************************************)
\* The row store_conflict writes; format!("{:?}", ..) of an enum is the
\* variant's name, which is how the model holds the enums.
ConflictRow(conflict) ==
    [id |-> conflict.id,
     conflict_type |-> conflict.conflict_type,
     base_content |-> conflict.base_version.content,
     local_content |-> conflict.local_version.content,
     local_author |-> conflict.local_version.author,
     local_start |-> conflict.local_version.start,
     local_end |-> conflict.local_version.end,
     local_ts |-> conflict.local_version.timestamp,
     remote_content |-> conflict.remote_version.content,
     remote_author |-> conflict.remote_version.author,
     remote_start |-> conflict.remote_version.start,
     remote_end |-> conflict.remote_version.end,
     remote_ts |-> conflict.remote_version.timestamp,
     base_start |-> conflict.base_version.start,
     base_end |-> conflict.base_version.end,
     status |-> conflict.status,
     resolved_content |-> NULL,
     detected_at |-> conflict.detected_at,
     resolved_at |-> NULL]

parse_conflict_type(s) ==
    IF s \in {"OverlappingEdit", "DeleteModify", "ConcurrentInsert", "StructuralConflict"}
    THEN s ELSE "OverlappingEdit"

\* The Conflict get_unresolved_conflicts builds from a row.
ConflictOfRow(row) ==
    [id |-> row.id,
     conflict_type |-> parse_conflict_type(row.conflict_type),
     base_version |-> TextSpan(row.base_start, row.base_end, row.base_content, "base", 0),
     local_version |-> TextSpan(row.local_start, row.local_end, row.local_content,
                                row.local_author, row.local_ts),
     remote_version |-> TextSpan(row.remote_start, row.remote_end, row.remote_content,
                                 row.remote_author, row.remote_ts),
     status |-> "Unresolved",
     detected_at |-> row.detected_at]

HasConflictId(table, id) == \E i \in 1..Len(table) : table[i].id = id

\* The status stored under an id, None when the id is not stored.
StoredStatus(table, id) ==
    IF HasConflictId(table, id)
    THEN Some(table[CHOOSE i \in 1..Len(table) : table[i].id = id].status)
    ELSE NULL

\* INSERT OR REPLACE: the row under the id gives way to the new one.
insert_or_replace_conflict(table, conflict) ==
    SelectSeq(table, LAMBDA row : row.id # conflict.id) \o <<ConflictRow(conflict)>>

\* INSERT OR IGNORE INTO conflicts_v2, id being the primary key
insert_or_ignore_conflict(table, conflict) ==
    IF HasConflictId(table, conflict.id) THEN table
    ELSE Append(table, ConflictRow(conflict))

\* ORDER BY detected_at DESC; rows with equal detected_at stay in rowid order.
InsertByDetectedAtDesc(sorted, row) ==
    LET k == Cardinality({i \in 1..Len(sorted) : sorted[i].detected_at >= row.detected_at})
    IN  SubSeq(sorted, 1, k) \o <<row>> \o SubSeq(sorted, k + 1, Len(sorted))

RECURSIVE OrderByDetectedAtDesc(_)
OrderByDetectedAtDesc(rows) ==
    IF rows = <<>> THEN <<>>
    ELSE InsertByDetectedAtDesc(OrderByDetectedAtDesc(SubSeq(rows, 1, Len(rows) - 1)),
                                rows[Len(rows)])

\* The listing without its WHERE clause.
get_all_conflicts(table) ==
    LET rows == OrderByDetectedAtDesc(table)
    IN  [i \in 1..Len(rows) |-> ConflictOfRow(rows[i])]

\* SELECT ... FROM conflicts_v2 WHERE status = 'Unresolved'
\* ORDER BY detected_at DESC
get_unresolved_conflicts(table) ==
    LET rows == OrderByDetectedAtDesc(SelectSeq(table, LAMBDA row : row.status = "Unresolved"))
    IN  [i \in 1..Len(rows) |-> ConflictOfRow(rows[i])]

\* The UPDATE without its WHERE clause.
update_resolution_every_row(table, resolution, resolved_at) ==
    [i \in 1..Len(table) |->
        [table[i] EXCEPT !.status = resolution.resolution,
                         !.resolved_content = resolution.merged_content,
                         !.resolved_at = Some(resolved_at)]]

\* UPDATE conflicts_v2 SET status, resolved_content, resolved_at WHERE id
update_resolution(table, resolution, resolved_at) ==
    [i \in 1..Len(table) |->
        IF table[i].id = resolution.conflict_id
        THEN [table[i] EXCEPT !.status = resolution.resolution,
                              !.resolved_content = resolution.merged_content,
                              !.resolved_at = Some(resolved_at)]
        ELSE table[i]]

ResolutionInput(conflict_id, resolution, merged_content) ==
    [conflict_id |-> conflict_id, resolution |-> resolution,
     merged_content |-> merged_content]

\* A call on the conflict store: its name, its argument, the status stored
\* under the argument's id when the call began, and what it returned.
StoreCall(op, arg, found, result) ==
    [op |-> op, arg |-> arg, found |-> found, result |-> result]

\* Ok(()) of a Result<(), String>.
OkUnit == [ok |-> TRUE]

Recorded(call) == IF Len(calls) < 2 THEN Append(calls, call) ELSE <<calls[2], call>>

store_conflict(conflict) ==
    /\ conflicts_v2' = insert_or_ignore_conflict(conflicts_v2, conflict)
    /\ calls' = Recorded(StoreCall("store_conflict", conflict,
                                   StoredStatus(conflicts_v2, conflict.id), OkUnit))
    /\ UNCHANGED <<store_vars, detector_vars, build_vars, manager_vars>>

\* The command get_conflicts.
get_conflicts ==
    /\ calls' = Recorded(StoreCall("get_conflicts", NULL, NULL,
                                   get_unresolved_conflicts(conflicts_v2)))
    /\ UNCHANGED <<conflicts_v2, store_vars, detector_vars, build_vars, manager_vars>>

\* Ok(()) whether or not a row had the id.
resolve_conflict(resolution) ==
    /\ conflicts_v2' = update_resolution(conflicts_v2, resolution, now)
    /\ calls' = Recorded(StoreCall("resolve_conflict", resolution,
                                   StoredStatus(conflicts_v2, resolution.conflict_id),
                                   OkUnit))
    /\ UNCHANGED <<store_vars, detector_vars, build_vars, manager_vars>>

\* for conflict in &conflicts { store_conflict(&conn, conflict)?; }
RECURSIVE store_conflicts(_, _)
store_conflicts(table, found) ==
    IF found = <<>> THEN table
    ELSE store_conflicts(insert_or_ignore_conflict(table, Head(found)), Tail(found))

\* The command detect_conflicts: list_patches, the detector with its window
\* of 5000 ms, then store_conflict on every conflict found.
detect_conflicts_command ==
    LET db == ensure_schema(patches, uuid_gen)
        list == select_patches(db.patches)
        found == detect_conflicts(concurrency_window, list, now)
    IN  /\ patches' = db.patches
        /\ uuid_gen' = db.gen
        /\ conflicts_v2' = store_conflicts(conflicts_v2, found)
        /\ calls' = Recorded(StoreCall("detect_conflicts", list, NULL, found))
        /\ UNCHANGED <<snapshots, patch_reviews, comments, source, now, last, written>>
        /\ UNCHANGED <<detector_vars, build_vars, manager_vars>>

(***************************************************************************)
(* The conflict store under stores, resolutions and listings.              *)
(***************************************************************************)
\* Two patches a second apart whose operations overlap pairwise: the
\* detector finds three conflicts in them, two of which share an id.
DetectedHistory ==
    <<EditPatch(1, 0, "alice",
                <<ReplaceOp(0, 2, "x"), DeleteOp(0, 1, "a"), DeleteOp(1, 2, "b")>>),
      EditPatch(2, 1000, "bob", <<ReplaceOp(0, 2, "y")>>)>>

\* What the detector hands to store_conflict at the time detected_at.
ConflictInputs(detected_at) ==
    LET found == detect_conflicts(concurrency_window, DetectedHistory, detected_at)
    IN  {found[k] : k \in 1..Len(found)}

\* The ids of those conflicts and one that is never stored.
ResolvedIds == {c.id : c \in ConflictInputs(0)} \cup {<<0, 1000, 2>>}

Resolutions ==
    {ResolutionInput(id, "ResolvedLocal", NULL) : id \in ResolvedIds}
    \cup {ResolutionInput(id, "ResolvedMerged", Some("merged")) : id \in ResolvedIds}
    \cup {ResolutionInput(id, "Unresolved", NULL) : id \in ResolvedIds}

InitConflicts ==
    StoreInit({<<>>}, {EmptySource}) /\ DetectorInit({<<>>}) /\ ConflictStoreInit /\ ManagerInit /\ BuildInit({FALSE})

NextConflicts ==
    \/ \E c \in ConflictInputs(now) : store_conflict(c)
    \/ \E r \in Resolutions : resolve_conflict(r)
    \/ get_conflicts
    \/ Tick

SpecConflicts == InitConflicts /\ [][NextConflicts]_vars

(***************************************************************************)
(* Claims on the conflict store.                                           *)
(***************************************************************************)
\* The last two calls stored one and the same conflict.
StoredTwice ==
    /\ Len(calls) = 2
    /\ calls[1].op = "store_conflict"
    /\ calls[2].op = "store_conflict"
    /\ calls[1].arg = calls[2].arg

RowsWithId(id) == {i \in 1..Len(conflicts_v2) : conflicts_v2[i].id = id}

\* How often the listing of unresolved conflicts holds a conflict of this id.
TimesListed(id) ==
    LET listed == get_unresolved_conflicts(conflicts_v2)
    IN  Cardinality({i \in 1..Len(listed) : listed[i].id = id})

\* C5 as stated: after store(c); store(c) there is exactly one row with c's
\* id and the listing of unresolved conflicts holds c exactly once.
C5_StoreTwiceListedOnce ==
    StoredTwice =>
        /\ Cardinality(RowsWithId(calls[2].arg.id)) = 1
        /\ TimesListed(calls[2].arg.id) = 1

\* C5 amended: after store(c); store(c) there is exactly one row with c's
\* id; the listing of unresolved conflicts holds a conflict of that id
\* exactly once when no row had the id before or the row was Unresolved, and
\* not at all when the row had been resolved, which the stores leave as it
\* was.
C5_StoreTwiceKeepsRow ==
    StoredTwice =>
        /\ Cardinality(RowsWithId(calls[2].arg.id)) = 1
        /\ TimesListed(calls[2].arg.id) =
               IF calls[1].found \in {NULL, Some("Unresolved")} THEN 1 ELSE 0
        /\ calls[2].found # NULL
        /\ StoredStatus(conflicts_v2, calls[2].arg.id) = calls[2].found

\* A conflict never stored before was stored twice and is listed once.
C5_Witness ==
    /\ StoredTwice
    /\ calls[1].found = NULL
    /\ Len(conflicts_v2) >= 2
    /\ TimesListed(calls[2].arg.id) = 1

\* The call a step has just made, when it made a resolve_conflict call.
Resolved(before, after, table_before, table_after) ==
    /\ after # <<>>
    /\ after # before \/ table_after # table_before
    /\ after[Len(after)].op = "resolve_conflict"

ResolvedStatuses == {"ResolvedLocal", "ResolvedRemote", "ResolvedMerged", "ResolvedBoth"}

\* C18: a resolve_conflict call with a resolved status on a stored conflict
\* leaves that conflict out of the listing of unresolved conflicts and with
\* the status given, and leaves every row of another id as it was.
C18_ResolveTouchesOneConflict ==
    [][Resolved(calls, calls', conflicts_v2, conflicts_v2') =>
          LET call == calls'[Len(calls')]
              id == call.arg.conflict_id
              listed == get_unresolved_conflicts(conflicts_v2')
          IN  (call.found # NULL /\ call.arg.resolution \in ResolvedStatuses) =>
                  /\ \A k \in 1..Len(listed) : listed[k].id # id
                  /\ StoredStatus(conflicts_v2', id) = Some(call.arg.resolution)
                  /\ Len(conflicts_v2') = Len(conflicts_v2)
                  /\ \A i \in 1..Len(conflicts_v2) :
                         conflicts_v2[i].id # id => conflicts_v2'[i] = conflicts_v2[i]]_vars

\* An unresolved conflict was resolved with merged content, it is no longer
\* listed, and the other stored conflict still is.
C18_Witness ==
    /\ calls # <<>>
    /\ LET call == calls[Len(calls)]
       IN  /\ call.op = "resolve_conflict"
           /\ call.found = Some("Unresolved")
           /\ call.arg.resolution = "ResolvedMerged"
           /\ TimesListed(call.arg.conflict_id) = 0
           /\ \E i \in 1..Len(conflicts_v2) :
                  /\ conflicts_v2[i].id # call.arg.conflict_id
                  /\ TimesListed(conflicts_v2[i].id) = 1

\* C19: a resolve_conflict call whose conflict id is not stored returns an
\* error, not Ok(()).
C19_ResolveUnknownIdFails ==
    \A k \in 1..Len(calls) :
        (calls[k].op = "resolve_conflict" /\ calls[k].found = NULL)
            => ~calls[k].result.ok

LastCall(history) == history[Len(history)]

\* The call a step has just made, when it made a call of this name.
Called(op) ==
    /\ calls' # <<>>
    /\ calls' # calls \/ conflicts_v2' # conflicts_v2
    /\ LastCall(calls').op = op

\* C27: store_conflict for a conflict whose id is stored leaves the table as
\* it was, the row of that id included: its status, resolved content and
\* resolution time stay, so a resolved conflict stays resolved.
C27_StoreKeepsStoredRow ==
    [][(Called("store_conflict") /\ LastCall(calls').found # NULL)
          => conflicts_v2' = conflicts_v2]_vars

\* A conflict resolved with merged content was stored again, at a later
\* time than it was resolved, and its row still says ResolvedMerged.
C27_Witness ==
    /\ calls # <<>>
    /\ LastCall(calls).op = "store_conflict"
    /\ LastCall(calls).found = Some("ResolvedMerged")
    /\ LastCall(calls).arg.status = "Unresolved"
    /\ \E i \in 1..Len(conflicts_v2) :
           /\ conflicts_v2[i].id = LastCall(calls).arg.id
           /\ conflicts_v2[i].status = "ResolvedMerged"
           /\ conflicts_v2[i].resolved_content = Some("merged")
           /\ conflicts_v2[i].resolved_at # NULL
           /\ conflicts_v2[i].resolved_at[1] < LastCall(calls).arg.detected_at

\* C29: resolve_conflict with an id that is not stored leaves the table of
\* conflicts as it was.
C29_ResolveUnknownIdChangesNothing ==
    [][(Called("resolve_conflict") /\ LastCall(calls').found = NULL)
          => conflicts_v2' = conflicts_v2]_vars

\* An id that was never stored was resolved while the table held an
\* unresolved and a resolved conflict.
C29_Witness ==
    /\ calls # <<>>
    /\ LastCall(calls).op = "resolve_conflict"
    /\ LastCall(calls).found = NULL
    /\ LastCall(calls).arg.resolution = "ResolvedLocal"
    /\ \E i, j \in 1..Len(conflicts_v2) :
           conflicts_v2[i].status = "Unresolved" /\ conflicts_v2[j].status = "ResolvedMerged"

\* C30: get_conflicts returns the stored conflicts whose status is
\* Unresolved, each once and no other, with detected_at descending; with
\* none it returns the empty sequence.
C30_ListsUnresolvedNewestFirst ==
    \A k \in 1..Len(calls) :
        calls[k].op = "get_conflicts" =>
            LET listed == calls[k].result
            IN  /\ \A i \in 1..(Len(listed) - 1) :
                       listed[i].detected_at >= listed[i + 1].detected_at
                /\ \A i \in 1..Len(listed) : listed[i].status = "Unresolved"
                /\ (k = Len(calls) =>
                       LET unresolved == {i \in 1..Len(conflicts_v2) :
                                             conflicts_v2[i].status = "Unresolved"}
                       IN  /\ Len(listed) = Cardinality(unresolved)
                           /\ {listed[i].id : i \in 1..Len(listed)}
                                  = {conflicts_v2[i].id : i \in unresolved}
                           /\ \A i \in 1..Len(listed) : \E j \in unresolved :
                                  /\ conflicts_v2[j].id = listed[i].id
                                  /\ conflicts_v2[j].detected_at = listed[i].detected_at
                                  /\ conflicts_v2[j].local_content
                                         = listed[i].local_version.content)

\* The listing returned two conflicts, the one detected later first, while
\* the table held them in the other order.
C30_Witness ==
    /\ calls # <<>>
    /\ LastCall(calls).op = "get_conflicts"
    /\ Len(LastCall(calls).result) = 2
    /\ LastCall(calls).result[1].detected_at > LastCall(calls).result[2].detected_at
    /\ Len(conflicts_v2) = 2
    /\ conflicts_v2[1].detected_at < conflicts_v2[2].detected_at

(***************************************************************************)
(* Detection over a growing history.                                       *)
(***************************************************************************)
\* Edit patches as the editor appends them: two authors, overlapping
\* operations, within the window of each other and beyond it.
DetectInputs ==
    {PatchInput(0, "alice", "semantic_group",
                ArrayData(<<ReplaceOp(0, 2, "x"), DeleteOp(0, 1, "a"), DeleteOp(1, 2, "b")>>),
                NULL, NULL),
     PatchInput(1000, "bob", "semantic_group", ArrayData(<<ReplaceOp(0, 2, "y")>>),
                NULL, NULL),
     PatchInput(4000, "alice", "semantic_group", ArrayData(<<InsertOp(1, "i")>>),
                NULL, NULL),
     PatchInput(9000, "bob", "semantic_group", ArrayData(<<DeleteOp(0, 2, "d")>>),
                NULL, NULL)}

InitDetect ==
    /\ StoreInit({<<>>}, {EmptySource})
    /\ DetectorInit({<<>>}) /\ ConflictStoreInit /\ ManagerInit /\ BuildInit({FALSE})

NextDetect ==
    \/ \E p \in DetectInputs : record_patch(p, NULL)
    \/ detect_conflicts_command
    \/ Tick

SpecDetect == InitDetect /\ [][NextDetect]_vars

IsDetect(call) == call.op = "detect_conflicts"
IdsOf(table) == {table[i].id : i \in 1..Len(table)}

\* C26: a run of the command detect_conflicts that follows another run
\* over the same list of patches leaves the conflict store with the ids and
\* the number of rows it had after the first.
C26_RerunKeepsStore ==
    [][(/\ calls # <<>> /\ IsDetect(LastCall(calls))
        /\ IsDetect(LastCall(calls'))
        /\ LastCall(calls').arg = LastCall(calls).arg
        /\ LastCall(calls').arg = patches')
          => (/\ IdsOf(conflicts_v2') = IdsOf(conflicts_v2)
              /\ Len(conflicts_v2') = Len(conflicts_v2)
              /\ \A k \in 1..Len(LastCall(calls').result) :
                     LET c == LastCall(calls').result[k]
                     IN  c.id = <<c.local_version.timestamp, c.remote_version.timestamp,
                                  c.local_version.start>>)]_vars

\* Two runs at different times over the same three patches found the same
\* three conflicts, two of them under one id, and the store holds two rows.
C26_Witness ==
    /\ Len(calls) = 2
    /\ IsDetect(calls[1]) /\ IsDetect(calls[2])
    /\ Len(calls[1].result) = 3
    /\ Len(calls[2].result) = 3
    /\ calls[1].result[1].detected_at # calls[2].result[1].detected_at
    /\ Len(conflicts_v2) = 2

\* What a conflict lies between: its id and its two sides.
SidesOf(found) ==
    {[id |-> found[k].id, local_version |-> found[k].local_version,
      remote_version |-> found[k].remote_version] : k \in 1..Len(found)}

IsPrefix(short, long) ==
    Len(short) <= Len(long) /\ SubSeq(long, 1, Len(short)) = short

\* C28: of two runs of the command detect_conflicts with patches appended
\* between them, the second finds every conflict the first found, under the
\* same id and with the same two sides; the store holds one row per id, and
\* the row of every id the first run found is there, no newer than that run.
C28_GrowingHistoryKeepsConflicts ==
    (/\ Len(calls) = 2 /\ IsDetect(calls[1]) /\ IsDetect(calls[2])
     /\ IsPrefix(calls[1].arg, calls[2].arg))
        => /\ SidesOf(calls[1].result) \subseteq SidesOf(calls[2].result)
           /\ Cardinality(IdsOf(conflicts_v2)) = Len(conflicts_v2)
           /\ \A k \in 1..Len(calls[1].result) :
                  \E i \in 1..Len(conflicts_v2) :
                      /\ conflicts_v2[i].id = calls[1].result[k].id
                      /\ conflicts_v2[i].detected_at <= calls[1].result[k].detected_at

\* The first run found conflicts among two patches; a third patch was
\* appended, and the second run, at a later time, found those and more.
C28_Witness ==
    /\ Len(calls) = 2 /\ IsDetect(calls[1]) /\ IsDetect(calls[2])
    /\ Len(calls[1].arg) = 2
    /\ Len(calls[2].arg) = 3
    /\ IsPrefix(calls[1].arg, calls[2].arg)
    /\ calls[1].result # <<>>
    /\ Len(calls[2].result) > Len(calls[1].result)
    /\ calls[2].result[1].detected_at > calls[1].result[1].detected_at
    /\ Len(conflicts_v2) > Cardinality({c.id : c \in SidesOf(calls[1].result)})

(***************************************************************************)
(* Claims on the conflicts the detector builds.                            *)
(***************************************************************************)
\* C31: every conflict the detector returns has status Unresolved and a
\* base version with empty content that starts at the smaller of the two
\* edits' starts and ends at the larger of their ends, so that the base span
\* contains the local span and the remote span.
C31_BaseSpanCoversBothEdits ==
    detector_output.ran =>
        \A c \in ConflictsOut :
            LET b == c.base_version
                l == c.local_version
                r == c.remote_version
            IN  /\ c.status = "Unresolved"
                /\ b.content = ""
                /\ b.start \in {l.start, r.start}
                /\ b.start <= l.start /\ b.start <= r.start
                /\ b.end \in {l.end, r.end}
                /\ b.end >= l.end /\ b.end >= r.end

\* A conflict of two edits with different starts and different ends, the
\* later patch's edit reaching further on both sides.
C31_Witness ==
    /\ detector_output.ran
    /\ \E c \in ConflictsOut :
           /\ c.remote_version.start < c.local_version.start
           /\ c.remote_version.end > c.local_version.end
           /\ c.base_version.start = c.remote_version.start
           /\ c.base_version.end = c.remote_version.end

(***************************************************************************)
(* The detector on lists that hold payloads it does not read.              *)
(***************************************************************************)
\* An element without "kind", an insert without "at", a replace whose range
\* starts with something that is not a number, and a kind the detector does
\* not know.
NoKindOp == JsonOp(NULL, Some(0), <<Some(0), Some(1)>>, Some("k"), NULL)
NoPositionOp == JsonOp(Some("insert_text"), NULL, <<>>, Some("p"), NULL)
NotANumberOp == JsonOp(Some("replace_text"), NULL, <<NULL, Some(2)>>, Some("n"), NULL)
UnknownKindOp == JsonOp(Some("move_text"), Some(0), <<Some(0), Some(1)>>, Some("m"), NULL)

\* Payloads of a semantic_group patch, and the object of a Save checkpoint.
JunkPayloads ==
    {[kind |-> "semantic_group", data |-> ArrayData(ops)] :
         ops \in {<<ReplaceOp(0, 2, "r")>>,
                  <<NoKindOp, DeleteOp(0, 1, "d")>>,
                  <<NoPositionOp, InsertOp(1, "i"), UnknownKindOp>>,
                  <<NotANumberOp, InsertOp(1, "j")>>,
                  <<UnknownKindOp>>}}
    \cup {[kind |-> "Save", data |-> ObjectData(Some("one"))]}

JunkChoices == [author : Authors, payload : JunkPayloads]
JunkPatch(i, c) ==
    Patch(i, PatchInput(1000 * (i - 1), c.author, c.payload.kind, c.payload.data,
                        NewV4(i), NULL))

InitJunk ==
    StoreInit({<<>>}, {EmptySource}) /\ DetectorInit({<<>>}) /\ ConflictStoreInit /\ ManagerInit /\ BuildInit({FALSE})

NextJunk ==
    \/ \E c \in JunkChoices :
           AddPatch(JunkPatch(Len(detector_input) + 1, c), MaxWindowPatches)
    \/ Detect

SpecJunk == InitJunk /\ [][NextJunk]_vars

\* An operation with a kind the detector reads and the position fields of
\* that kind present as unsigned numbers.
WellFormed(op) ==
    \/ /\ op.kind = Some("insert_text")
       /\ op.at # NULL /\ op.at[1] >= 0
       /\ op.insertedText # NULL
    \/ /\ op.kind \in {Some("delete_text"), Some("replace_text")}
       /\ Len(op.range) >= 2
       /\ \A k \in 1..2 : op.range[k] # NULL /\ op.range[k][1] >= 0

\* The place of the k-th operation of the i-th patch.
Place(i, k) ==
    LET p == detector_input[i]
        op == p.data.ops[k]
    IN  [start |-> StartOf(op), end |-> EndOf(op), author |-> p.author,
         timestamp |-> p.timestamp]

PlaceOf(span) ==
    [start |-> span.start, end |-> span.end, author |-> span.author,
     timestamp |-> span.timestamp]

\* The well-formed operations of the list's array payloads.
EditsOfList ==
    {ik \in (1..Len(detector_input)) \X (1..3) :
         /\ detector_input[ik[1]].data.array
         /\ ik[2] <= Len(detector_input[ik[1]].data.ops)
         /\ WellFormed(detector_input[ik[1]].data.ops[ik[2]])}

Clash(a, b) ==
    LET x == detector_input[a[1]].data.ops[a[2]]
        y == detector_input[b[1]].data.ops[b[2]]
    IN  /\ detector_input[a[1]].author # detector_input[b[1]].author
        /\ IF IsInsert(x) /\ IsInsert(y) THEN StartOf(x) = StartOf(y)
           ELSE StartOf(x) < EndOf(y) /\ StartOf(y) < EndOf(x)

\* C32: the detector returns a result for every list; an operation without
\* a kind, of a kind it does not know, or without numeric position fields,
\* and a patch whose payload is not an array, give no edit, and the
\* conflicts returned are those of the well-formed operations of the list:
\* the ones beside a junk operation in a patch and those of other patches.
C32_JunkContributesNothing ==
    detector_output.ran =>
        {<<PlaceOf(c.local_version), PlaceOf(c.remote_version)>> : c \in ConflictsOut}
            = {<<Place(a[1], a[2]), Place(b[1], b[2])>> :
                   <<a, b>> \in {ab \in EditsOfList \X EditsOfList :
                                     ab[1][1] < ab[2][1] /\ Clash(ab[1], ab[2])}}

\* A list with a Save checkpoint and a patch that holds a junk operation
\* before a well-formed one, whose well-formed operation is in a conflict.
C32_Witness ==
    /\ detector_output.ran
    /\ \E i, j, s \in 1..Len(detector_input) :
           /\ ~detector_input[s].data.array
           /\ detector_input[i].data.ops = <<NoKindOp, DeleteOp(0, 1, "d")>>
           /\ detector_input[j].data.ops = <<ReplaceOp(0, 2, "r")>>
           /\ \E c \in ConflictsOut :
                  {c.local_version.timestamp, c.remote_version.timestamp}
                      = {detector_input[i].timestamp, detector_input[j].timestamp}

\* The span the detector makes of the k-th operation of the i-th patch.
SideOf(ik) ==
    LET p == detector_input[ik[1]]
        op == p.data.ops[ik[2]]
    IN  TextSpan(StartOf(op), EndOf(op),
                 IF op.kind = Some("delete_text") THEN unwrap_or(op.deletedText, "")
                 ELSE unwrap_or(op.insertedText, ""),
                 p.author, p.timestamp)

\* The pairs of operations in conflict: of two patches of one time group,
\* the first earlier in the list than the second.
ClashingPairs ==
    {ab \in EditsOfList \X EditsOfList :
         /\ ab[1][1] < ab[2][1]
         /\ GroupOf(detector_output.time_groups, ab[1][1])
                = GroupOf(detector_output.time_groups, ab[2][1])
         /\ Clash(ab[1], ab[2])}

SidesAt(n) ==
    <<detector_output.conflicts[n].local_version, detector_output.conflicts[n].remote_version>>

\* C33: the local version of every conflict is the operation of the patch
\* that stands earlier in the list given to the detector and the remote
\* version that of the later one, whatever their timestamps, and every pair
\* of operations in conflict is reported once: as many conflicts carry a
\* given pair of sides as there are pairs of operations with those sides.
C33_LocalIsEarlierInList ==
    detector_output.ran =>
        /\ Len(detector_output.conflicts) = Cardinality(ClashingPairs)
        /\ \A n \in 1..Len(detector_output.conflicts) :
               Cardinality({k \in 1..Len(detector_output.conflicts) : SidesAt(k) = SidesAt(n)})
                   = Cardinality({ab \in ClashingPairs :
                                      <<SideOf(ab[1]), SideOf(ab[2])>> = SidesAt(n)})

\* The first patch of the list has the later timestamp and its operation is
\* the local version of the one conflict with the second patch.
C33_Witness ==
    /\ detector_output.ran
    /\ Len(detector_input) = 2
    /\ detector_input[1].timestamp > detector_input[2].timestamp
    /\ Len(detector_output.conflicts) = 1
    /\ detector_output.conflicts[1].local_version.timestamp = detector_input[1].timestamp
    /\ detector_output.conflicts[1].local_version.author = detector_input[1].author
    /\ detector_output.conflicts[1].remote_version.timestamp = detector_input[2].timestamp

(***************************************************************************)
(* Claims on what an import writes.                                        *)
(***************************************************************************)
\* The rows a successful import step added to the patches table.
Inserted == {patches'[i] : i \in (Len(patches) + 1)..Len(patches')}
SaveRows(src) == {src.patches[i] : i \in {i \in 1..Len(src.patches) : src.patches[i].kind = "Save"}}
SameButIdAndUuid(q, sp) ==
    /\ q.timestamp = sp.timestamp /\ q.author = sp.author /\ q.kind = sp.kind
    /\ q.data = sp.data /\ q.parent_uuid = sp.parent_uuid

\* C34 as stated: an import adds to the target only patches read from the
\* source's rows of kind "Save", and each added patch has the timestamp,
\* author, kind, data, uuid and parent_uuid of its source row.
C34_ImportKeepsEveryField ==
    [][(IsImport(last') /\ last'.ok)
       => \A q \in Inserted :
              \E sp \in SaveRows(source) : SameButIdAndUuid(q, sp) /\ q.uuid = sp.uuid]_vars

\* C34, amended: an import adds to the target only patches read from the
\* source's rows of kind "Save"; each added patch has the timestamp, author,
\* kind, data and parent_uuid of its source row, and that row's uuid if it
\* has one; for a source row without a uuid the added patch carries a newly
\* generated uuid that no patch of the target had.
C34_ImportKeepsFieldsAndGivenUuid ==
    [][(IsImport(last') /\ last'.ok)
       => \A q \in Inserted :
              /\ q.kind = "Save"
              /\ \E sp \in SaveRows(source) :
                     /\ SameButIdAndUuid(q, sp)
                     /\ sp.uuid # NULL => q.uuid = sp.uuid
                     /\ sp.uuid = NULL =>
                            /\ q.uuid # NULL /\ q.uuid[1] = "v4"
                            /\ ~UuidExists(patches, q.uuid)]_vars

\* An import from a source with an edit patch and a checkpoint without a
\* uuid brought in the checkpoint, under a generated uuid, and nothing else.
C34_Witness ==
    /\ IsImport(last) /\ last.ok
    /\ Len(source.patches) = 2
    /\ \E i \in 1..2 : source.patches[i].kind # "Save"
    /\ \E i \in 1..2 : source.patches[i].kind = "Save" /\ source.patches[i].uuid = NULL
    /\ Len(last.result) = 1
    /\ last.result[1].uuid[1] = "v4"
    /\ patches[Len(patches)] = last.result[1]

\* C35: an import keeps every patch and every snapshot the target held, each
\* patch under the id it had; every patch it inserts gets an id above all
\* ids the target held before, and of two inserted patches the one with the
\* smaller source timestamp gets the smaller id.
C35_ImportKeepsRowsAndAppendsByTime ==
    [][IsImport(last')
       => /\ Len(patches') >= Len(patches)
          /\ \A i \in 1..Len(patches) :
                 /\ patches'[i].id = patches[i].id
                 /\ SameButIdAndUuid(patches'[i], patches[i])
          /\ Len(snapshots') >= Len(snapshots)
          /\ SubSeq(snapshots', 1, Len(snapshots)) = snapshots
          /\ \A q \in Inserted : \A i \in 1..Len(patches) : q.id > patches[i].id
          /\ \A q, r \in Inserted : q.timestamp < r.timestamp => q.id < r.id]_vars

\* The target held a checkpoint and its snapshot; the import added two
\* checkpoints of a source that stores the later one under the smaller id,
\* the earlier one first.
C35_Witness ==
    /\ IsImport(last)
    /\ Len(source.patches) = 2
    /\ source.patches[1].timestamp > source.patches[2].timestamp
    /\ Len(last.result) = 2
    /\ Len(patches) = 3
    /\ patches[1].id = 1
    /\ patches[2] = last.result[1] /\ patches[3] = last.result[2]
    /\ patches[2].timestamp = source.patches[2].timestamp
    /\ patches[2].id < patches[3].id
    /\ \E j \in 1..Len(snapshots) : snapshots[j].patch_id = 1

(***************************************************************************)
(* Claims on reviewed patches.                                             *)
(***************************************************************************)
UuidsOf(rows) == {rows[i].uuid : i \in 1..Len(rows)}

\* C36: from the state in which a review of reviewer r for a patch was
\* written on, in every state the query for the patches r has yet to review
\* does not return that patch, and no call of it did, whatever appends,
\* reviews, changes of decision and imports came in between.
C36_ReviewedNeverNeedsReview ==
    /\ \A k \in DOMAIN written :
           k[1] \notin UuidsOf(patches_needing_review(ensure_schema(patches, uuid_gen).patches,
                                                      patch_reviews, k[2]))
    /\ IsNeedsReview(last) =>
           \A k \in DOMAIN written : k[2] = last.arg => k[1] \notin UuidsOf(last.result)

\* bob's review of alice's imported patch is stored as "rejected" and the
\* query for bob, made at a later time, returned another patch of alice.
C36_Witness ==
    /\ IsNeedsReview(last) /\ last.arg = "bob"
    /\ <<<<"given", 1>>, "bob">> \in DOMAIN written
    /\ written[<<<<"given", 1>>, "bob">>] = "rejected"
    /\ \E i \in 1..Len(patches) : patches[i].uuid = <<"given", 1>> /\ patches[i].author = "alice"
    /\ last.result # <<>>
    /\ \E x \in RowsOf(<<"given", 1>>, "bob") : x.reviewed_at < now

(***************************************************************************)
(* Claims on parents that are not stored.                                  *)
(***************************************************************************)
StoredWithParent(patch_uuid) ==
    {i \in 1..Len(patches) : patches[i].uuid = patch_uuid /\ patches[i].parent_uuid # NULL}

\* C37: an append of a patch whose parent_uuid is the uuid of no stored
\* patch succeeds and stores the patch with that parent_uuid; and
\* check_parent_patch_status answers has_parent = true, with the stored
\* parent_uuid, exactly when the queried patch is stored and has a
\* parent_uuid, whether or not a patch of that uuid is stored: has_parent is
\* false only for a patch without parent_uuid and for a uuid not stored.
C37_ParentNotValidated ==
    /\ [][(/\ IsAppend(last')
           /\ last'.arg.parent_uuid # NULL
           /\ ~UuidExists(patches, last'.arg.parent_uuid)
           /\ ~UuidExists(patches, last'.arg.uuid))
          => /\ last'.ok
             /\ Len(patches') = Len(patches) + 1
             /\ patches'[Len(patches')].uuid = last'.arg.uuid
             /\ patches'[Len(patches')].parent_uuid = last'.arg.parent_uuid]_vars
    /\ [](IsParentStatus(last) =>
              /\ last.result.has_parent <=> StoredWithParent(last.arg.patch_uuid) # {}
              /\ last.result.has_parent =>
                     \A i \in StoredWithParent(last.arg.patch_uuid) :
                         last.result.parent_uuid = patches[i].parent_uuid)

\* The queried patch names a parent of which no patch is stored, and the
\* answer is has_parent with that uuid.
C37_Witness ==
    /\ IsParentStatus(last)
    /\ last.result.has_parent
    /\ last.result.parent_uuid = <<"given", 3>>
    /\ ~UuidExists(patches, <<"given", 3>>)
    /\ StoredWithParent(last.arg.patch_uuid) # {}

(***************************************************************************)
(* Claims on imported comments.                                            *)
(***************************************************************************)
\* C38: an import that follows an import of the same source leaves the
\* number of comments as it was; and no import inserts a comment whose
\* timestamp, author and content are those of a comment the target held.
C38_ReimportKeepsCommentCount ==
    [][IsImport(last') =>
          /\ Len(comments') >= Len(comments)
          /\ IsImport(last) => Len(comments') = Len(comments)
          /\ \A j \in (Len(comments) + 1)..Len(comments') :
                 \A i \in 1..Len(comments) : ~SameComment(comments'[j], comments[i])]_vars

\* The target's own comment has the timestamp, author and content of the
\* source's first comment; the import added the source's second comment
\* and not the first.
C38_Witness ==
    /\ IsImport(last)
    /\ Len(source.comments) = 2
    /\ source.comments[1].parent_id = NULL
    /\ Len(comments) = 2
    /\ SameComment(comments[1], source.comments[1])
    /\ comments[1].parent_id = Some(1)
    /\ SameComment(comments[2], source.comments[2])

(***************************************************************************)
(* document_manager.rs: the table of open documents behind its Mutex.      *)
(* A handler that locks once is one action.  save_document locks twice,    *)
(* with the file dialog and the bundling in between and the lock released: *)
(* it is three actions, and its locals are kept in save_task.              *)
(***************************************************************************)
\* The fields of DocumentState the handlers below read or write.
DocumentState(path, is_modified, yjs_state) ==
    [path |-> path, is_modified |-> is_modified, yjs_state |-> yjs_state]

\* DocumentHandle, as a handler returns it.
Handle(id, doc) == [id |-> id, path |-> doc.path, is_modified |-> doc.is_modified]

\* Uuid::new_v4().to_string()
DocId(n) == <<"doc", n>>

Remove(table, id) == [k \in DOMAIN table \ {id} |-> table[k]]

ManagerFrame ==
    /\ UNCHANGED <<patches, snapshots, patch_reviews, comments, source, uuid_gen, now, written>>
    /\ UNCHANGED <<detector_vars, conflict_vars, build_vars>>

\* manager.documents.insert(doc_id.clone(), state);
\* manager.active_document_id = Some(doc_id);
insert_document(doc_id, state) ==
    /\ documents' = (doc_id :> state) @@ documents
    /\ active_document_id' = Some(doc_id)
    /\ doc_gen' = doc_gen + 1

\* new_document(manager) -> Result<DocumentHandle, String>
new_document ==
    LET doc_id == DocId(doc_gen + 1)
        state == DocumentState(NULL, FALSE, "")
    IN  /\ doc_gen < MaxDocs
        /\ insert_document(doc_id, state)
        /\ last' = Call("new_document", NULL, TRUE, Handle(doc_id, state))
        /\ UNCHANGED <<disk, save_task>>
        /\ ManagerFrame

\* open_document(app, manager, path); picked is the file dialog's answer,
\* asked for when path is None.
open_document(path, picked) ==
    LET file_path == IF path # NULL THEN path ELSE picked
        doc_id == DocId(doc_gen + 1)
    IN  /\ doc_gen < MaxDocs
        /\ IF file_path = NULL \/ disk[file_path[1]] = NULL
           THEN /\ last' = Call("open_document", path, FALSE, NULL)
                /\ UNCHANGED <<documents, active_document_id, doc_gen>>
           ELSE LET state == DocumentState(file_path, FALSE, disk[file_path[1]][1])
                IN  /\ insert_document(doc_id, state)
                    /\ last' = Call("open_document", path, TRUE, Handle(doc_id, state))
        /\ UNCHANGED <<disk, save_task>>
        /\ ManagerFrame

\* The files import_document can read.
ImportFiles == {"notes.md"}

\* import_document(app, manager, path): the document comes in modified,
\* without a path and with an empty yjs state.
import_document(path, picked) ==
    LET file_path == IF path # NULL THEN path ELSE picked
        doc_id == DocId(doc_gen + 1)
        state == DocumentState(NULL, TRUE, "")
    IN  /\ doc_gen < MaxDocs
        /\ IF file_path = NULL \/ file_path[1] \notin ImportFiles
           THEN /\ last' = Call("import_document", path, FALSE, NULL)
                /\ UNCHANGED <<documents, active_document_id, doc_gen>>
           ELSE /\ insert_document(doc_id, state)
                /\ last' = Call("import_document", path, TRUE, Handle(doc_id, state))
        /\ UNCHANGED <<disk, save_task>>
        /\ ManagerFrame

\* An active id that stays what it was when its document is closed.
next_active_unchanged(remaining, id) == {Some(id)}

\* manager.documents.keys().next().cloned(): the first key in the HashMap's
\* iteration order, which is any of the keys, or None for an empty table.
next_active(remaining, id) ==
    IF DOMAIN remaining = {} THEN {NULL} ELSE {Some(k) : k \in DOMAIN remaining}

\* close_document(manager, id, force) -> Result<bool, String>
close_document(id, force) ==
    LET arg == [id |-> id, force |-> force]
    IN  /\ IF id \notin DOMAIN documents
           THEN /\ last' = Call("close_document", arg, FALSE, NULL)
                /\ UNCHANGED <<documents, active_document_id>>
           ELSE IF documents[id].is_modified /\ ~unwrap_or(force, FALSE)
           THEN /\ last' = Call("close_document", arg, TRUE, FALSE)
                /\ UNCHANGED <<documents, active_document_id>>
           ELSE /\ documents' = Remove(documents, id)
                /\ IF active_document_id = Some(id)
                   THEN active_document_id' \in next_active(documents', id)
                   ELSE UNCHANGED active_document_id
                /\ last' = Call("close_document", arg, TRUE, TRUE)
        /\ UNCHANGED <<doc_gen, disk, save_task>>
        /\ ManagerFrame

\* set_active_document(manager, id) -> Result<(), String>
set_active_document(id) ==
    /\ IF id \in DOMAIN documents
       THEN /\ active_document_id' = Some(id)
            /\ last' = Call("set_active_document", id, TRUE, NULL)
       ELSE /\ UNCHANGED active_document_id
            /\ last' = Call("set_active_document", id, FALSE, NULL)
    /\ UNCHANGED <<documents, doc_gen, disk, save_task>>
    /\ ManagerFrame

\* update_document_state(manager, id, state) -> Result<(), String>
update_document_state(id, state) ==
    LET arg == [id |-> id, state |-> state]
    IN  /\ IF id \in DOMAIN documents
           THEN /\ documents' = [documents EXCEPT ![id].yjs_state = state,
                                                  ![id].is_modified = TRUE]
                /\ last' = Call("update_document_state", arg, TRUE, NULL)
           ELSE /\ UNCHANGED documents
                /\ last' = Call("update_document_state", arg, FALSE, NULL)
        /\ UNCHANGED <<active_document_id, doc_gen, disk, save_task>>
        /\ ManagerFrame

\* save_document, lines 370-375: under the lock, the call copies the
\* document's yjs state and path, or fails for an id that is not open.
save_document_read(id, path) ==
    /\ save_task = NULL
    /\ IF id \notin DOMAIN documents
       THEN /\ last' = Call("save_document", [id |-> id, path |-> path], FALSE, NULL)
            /\ UNCHANGED save_task
       ELSE /\ save_task' = [id |-> id, path |-> path,
                             yjs_state |-> documents[id].yjs_state,
                             existing_path |-> documents[id].path,
                             save_path |-> NULL, pc |-> "bundle"]
            /\ UNCHANGED last
    /\ UNCHANGED <<documents, active_document_id, doc_gen, disk>>
    /\ ManagerFrame

\* save_document, lines 377-406, without the lock: the path given, else the
\* document's, else the save dialog's answer (none: "Save cancelled"); then
\* bundle_to_kmd writes the copied state to that path.
save_document_bundle(picked) ==
    LET t == save_task
        save_path == IF t.path # NULL THEN t.path
                     ELSE IF t.existing_path # NULL THEN t.existing_path
                     ELSE picked
    IN  /\ save_task # NULL /\ save_task.pc = "bundle"
        /\ IF save_path = NULL
           THEN /\ save_task' = NULL
                /\ last' = Call("save_document", [id |-> t.id, path |-> t.path], FALSE, NULL)
                /\ UNCHANGED disk
           ELSE /\ disk' = [disk EXCEPT ![save_path[1]] = Some(t.yjs_state)]
                /\ save_task' = [t EXCEPT !.save_path = save_path, !.pc = "update"]
                /\ UNCHANGED last
        /\ UNCHANGED <<documents, active_document_id, doc_gen>>
        /\ ManagerFrame

\* save_document, lines 408-429: under the lock again, the document gets
\* the path and is_modified = false, whatever happened to it in between.
save_document_update ==
    LET t == save_task
        arg == [id |-> t.id, path |-> t.path]
    IN  /\ save_task # NULL /\ save_task.pc = "update"
        /\ IF t.id \in DOMAIN documents
           THEN /\ documents' = [documents EXCEPT ![t.id].path = t.save_path,
                                                  ![t.id].is_modified = FALSE]
                /\ last' = Call("save_document", arg, TRUE, Handle(t.id, documents'[t.id]))
           ELSE /\ UNCHANGED documents
                /\ last' = Call("save_document", arg, FALSE, NULL)
        /\ save_task' = NULL
        /\ UNCHANGED <<active_document_id, doc_gen, disk>>
        /\ ManagerFrame

(***************************************************************************)
(* The manager under every handler that changes the table, open documents  *)
(* being edited and saved meanwhile.                                       *)
(***************************************************************************)
\* The ids the manager hands out and one it never does.
DocIds == {DocId(n) : n \in 0..MaxDocs}
YjsStates == {"s1"}
SavePaths == {NULL, Some("a.kmd")}
OpenPaths == {NULL, Some("a.kmd"), Some("b.kmd")}
ImportPaths == {NULL, Some("notes.md"), Some("gone.md")}
Forces == {NULL, Some(FALSE), Some(TRUE)}

InitManager ==
    /\ StoreInit({<<>>}, {EmptySource})
    /\ DetectorInit({<<>>}) /\ ConflictStoreInit /\ ManagerInit /\ BuildInit({FALSE})

NextManager ==
    \/ new_document
    \/ \E path \in OpenPaths, picked \in {NULL, Some("a.kmd")} : open_document(path, picked)
    \/ \E path \in ImportPaths, picked \in {NULL, Some("notes.md")} : import_document(path, picked)
    \/ \E id \in DocIds, force \in Forces : close_document(id, force)
    \/ \E id \in DocIds : set_active_document(id)
    \/ \E id \in DocIds, state \in YjsStates : update_document_state(id, state)
    \/ \E id \in DocIds, path \in SavePaths : save_document_read(id, path)
    \/ \E picked \in SavePaths : save_document_bundle(picked)
    \/ save_document_update

SpecManager == InitManager /\ [][NextManager]_vars

\* C39: active_document_id is None or the id of a document in the table,
\* after any calls of new_document, open_document, import_document,
\* close_document and set_active_document (and of the other handlers); and
\* set_active_document and close_document with an id that is not in the
\* table return an error and leave the table and the active id as they were.
C39_ActiveIsOpenOrNone ==
    /\ [](active_document_id = NULL \/ active_document_id[1] \in DOMAIN documents)
    /\ [][(\/ (last'.op = "set_active_document" /\ last'.arg \notin DOMAIN documents)
           \/ (last'.op = "close_document" /\ last'.arg.id \notin DOMAIN documents))
          => (last # last' =>
                  /\ ~last'.ok
                  /\ documents' = documents
                  /\ active_document_id' = active_document_id)]_vars

\* The active document was closed while another was open, and that one is
\* active now.
C39_Witness ==
    /\ last.op = "close_document" /\ last.ok /\ last.result = TRUE
    /\ last.arg.id = DocId(2)
    /\ DOMAIN documents = {DocId(1)}
    /\ active_document_id = Some(DocId(1))

\* C40: when a save_document call returns Ok and the document's
\* is_modified is false, the file the call wrote holds the yjs state the
\* document has in memory, whatever update_document_state calls ran while
\* the save was under way.
C40_SavedStateIsCurrent ==
    [][(/\ save_task # NULL /\ save_task.pc = "update"
        /\ save_task' = NULL
        /\ last'.ok
        /\ ~documents'[save_task.id].is_modified)
       => disk'[save_task.save_path[1]] = Some(documents'[save_task.id].yjs_state)]_vars

====
